---- MODULE Spec2Model ----
(***************************************************************************)
(* Verification model of the trader skills:                                *)
(*   - staking_abci/rounds.py                 (StakingAbciApp)             *)
(*   - tx_settlement_multiplexer_abci/rounds.py                            *)
(*                                    (TxSettlementMultiplexerAbciApp)     *)
(*   - check_stop_trading_abci/behaviours.py  (CheckStopTradingBehaviour)  *)
(*   - decision_maker_abci/behaviours/order_subscription.py                *)
(*                                    (OrderSubscriptionBehaviour)         *)
(*                                                                         *)
(*   - market_manager_abci/graph_tooling/requests.py (QueryingBehaviour)   *)
(*                                                                         *)
(* Five specifications share the module's variables:                       *)
(*   Spec           the two ABCI apps, driven by the generic round driver  *)
(*   SpecKpi        one run of CheckStopTradingBehaviour.async_act         *)
(*   SpecOrder      one run of OrderSubscriptionBehaviour.async_act        *)
(*   SpecBehaviours one run of either behaviour                            *)
(*   SpecFetch      one run of QueryingBehaviour's fetching loop           *)
(* A specification keeps the variables of the other components at their    *)
(* idle values.                                                            *)
(***************************************************************************)
EXTENDS Integers, Sequences, FiniteSets

VARIABLES
    \* ---- ABCI apps (Spec) ----
    abci_app,        \* the AbciApp class being driven
    current_round,   \* the class of the current round
    collection,      \* the current round's payloads: sender -> payload
    db,              \* SynchronizedData: key -> value
    latest_result,   \* what the last end_block invocation returned
    last_event,      \* the event process_event was last called with, this period
    \* ---- CheckStopTradingBehaviour (SpecKpi) ----
    kpi_pc,          \* position of the behaviour
    kpi_params,      \* period_count, disable_trading, stop_trading_if_staking_kpi_met
    kpi_attrs,       \* the attributes the fetches set on the behaviour
    kpi_calls,       \* the external fetches that succeeded, in order
    kpi_failed,      \* the number of fetches that failed and were retried
    kpi_out,         \* required_mech_requests, is_staking_kpi_met's result, payload
    \* ---- OrderSubscriptionBehaviour (SpecOrder) ----
    order_pc,        \* position of the behaviour
    order_params,    \* use_nevermined
    balance,         \* the balance attribute set by the balance_of call
    multisend_batches, \* the batches appended so far
    order_calls,     \* the steps of the purchase flow that ran, in order
    order_failed,    \* the number of multisend build steps that failed and were retried
    order_out,       \* get_payload_content's result, the payload sent
    \* ---- QueryingBehaviour (SpecFetch) ----
    fetch_pc,        \* position of the fetching loop
    fetch_params,    \* the subgraphs' retries, the creators per market
    fetch_status,    \* _fetch_status
    call_failed,     \* _call_failed
    creators_iterator, \* what _creators_iterator has yet to yield
    current_market,  \* _current_market
    current_creators, \* _current_creators
    retries_attempted, \* each subgraph's retries_info.retries_attempted
    fetch_log,       \* the responses processed so far, in order
    prepare_ret,     \* what the last call of _prepare_bets_fetching returned
    bets             \* what the last call of _fetch_bets returned

appVars   == <<abci_app, current_round, collection, db, latest_result, last_event>>
kpiVars   == <<kpi_pc, kpi_params, kpi_attrs, kpi_calls, kpi_failed, kpi_out>>
orderVars ==
    <<order_pc, order_params, balance, multisend_batches, order_calls, order_failed,
      order_out>>
fetchVars ==
    <<fetch_pc, fetch_params, fetch_status, call_failed, creators_iterator,
      current_market, current_creators, retries_attempted, fetch_log, prepare_ret, bets>>
vars      == <<appVars, kpiVars, orderVars, fetchVars>>

\* Python's None.
None == "None"

(***************************************************************************)
(* Bounds                                                                  *)
(***************************************************************************)
\* The number of agents of the service.
NbParticipants == 3

\* The number of failed fetches of one run of a behaviour.
MaxFetchFailures == 1

\* The number of markets (subgraphs) the service is configured with.
NbMarkets == 2

\* The largest number of retries a subgraph is configured with.
MaxRetries == 1

Agents == 1..NbParticipants

(***************************************************************************)
(* Events, rounds and tables of the two apps                               *)
(***************************************************************************)
\* staking_abci Event
DONE == "done"
ROUND_TIMEOUT == "round_timeout"
NO_MAJORITY == "no_majority"
SERVICE_NOT_STAKED == "service_not_staked"
SERVICE_EVICTED == "service_evicted"
NEXT_CHECKPOINT_NOT_REACHED_YET == "next_checkpoint_not_reached_yet"

\* tx_settlement_multiplexer_abci Event (ROUND_TIMEOUT has the same value)
DECISION_REQUESTING_DONE == "decision_requesting_done"
BET_PLACEMENT_DONE == "bet_placement_done"
UNRECOGNIZED == "unrecognized"

\* AbstractRound.auto_round_id(): the class name in snake case.
DecisionRequestRound_auto_round_id == "decision_request_round"
BetPlacementRound_auto_round_id == "bet_placement_round"
CallCheckpointRound_auto_round_id == "call_checkpoint_round"
SubscriptionRound_auto_round_id == "subscription_round"

\* The round that process_event enters when (round, event) has no entry.
DeadEnd == "DeadEnd"

Mutant_done_StakingAbciApp_transition_function ==
    [CallCheckpointRound |->
        [done |-> "FinishedStakingRound",
         service_not_staked |-> "FinishedStakingRound",
         service_evicted |-> "ServiceEvictedRound",
         next_checkpoint_not_reached_yet |-> "FinishedStakingRound",
         round_timeout |-> "CallCheckpointRound",
         no_majority |-> "CallCheckpointRound"],
     CheckpointCallPreparedRound |-> <<>>,
     FinishedStakingRound |-> <<>>,
     ServiceEvictedRound |-> <<>>]

Mutant_final_StakingAbciApp_transition_function ==
    [CallCheckpointRound |->
        [done |-> "CheckpointCallPreparedRound",
         service_not_staked |-> "FinishedStakingRound",
         service_evicted |-> "ServiceEvictedRound",
         next_checkpoint_not_reached_yet |-> "FinishedStakingRound",
         round_timeout |-> "CallCheckpointRound",
         no_majority |-> "CallCheckpointRound"],
     CheckpointCallPreparedRound |-> <<>>,
     FinishedStakingRound |-> [round_timeout |-> "CallCheckpointRound"],
     ServiceEvictedRound |-> <<>>]

Mutant_no_majority_StakingAbciApp_transition_function ==
    [CallCheckpointRound |->
        [done |-> "CheckpointCallPreparedRound",
         service_not_staked |-> "FinishedStakingRound",
         service_evicted |-> "ServiceEvictedRound",
         next_checkpoint_not_reached_yet |-> "FinishedStakingRound",
         round_timeout |-> "CallCheckpointRound",
         no_majority |-> "FinishedStakingRound"],
     CheckpointCallPreparedRound |-> <<>>,
     FinishedStakingRound |-> <<>>,
     ServiceEvictedRound |-> <<>>]

Mutant_evicted_StakingAbciApp_transition_function ==
    [CallCheckpointRound |->
        [done |-> "CheckpointCallPreparedRound",
         service_not_staked |-> "FinishedStakingRound",
         service_evicted |-> "FinishedStakingRound",
         next_checkpoint_not_reached_yet |-> "FinishedStakingRound",
         round_timeout |-> "CallCheckpointRound",
         no_majority |-> "CallCheckpointRound"],
     CheckpointCallPreparedRound |-> <<>>,
     FinishedStakingRound |-> <<>>,
     ServiceEvictedRound |-> <<>>]

Mutant_StakingAbciApp_transition_function ==
    [CallCheckpointRound |->
        [done |-> "CheckpointCallPreparedRound",
         service_not_staked |-> "FinishedStakingRound",
         service_evicted |-> "ServiceEvictedRound",
         round_timeout |-> "CallCheckpointRound",
         no_majority |-> "CallCheckpointRound"],
     CheckpointCallPreparedRound |-> <<>>,
     FinishedStakingRound |-> <<>>,
     ServiceEvictedRound |-> <<>>]

StakingAbciApp_transition_function ==
    [CallCheckpointRound |->
        [done |-> "CheckpointCallPreparedRound",
         service_not_staked |-> "FinishedStakingRound",
         service_evicted |-> "ServiceEvictedRound",
         next_checkpoint_not_reached_yet |-> "FinishedStakingRound",
         round_timeout |-> "CallCheckpointRound",
         no_majority |-> "CallCheckpointRound"],
     CheckpointCallPreparedRound |-> <<>>,
     FinishedStakingRound |-> <<>>,
     ServiceEvictedRound |-> <<>>]

StakingAbciApp_final_states ==
    {"CheckpointCallPreparedRound", "FinishedStakingRound", "ServiceEvictedRound"}

StakingAbciApp_event_to_timeout == {ROUND_TIMEOUT}

Mutant_StakingAbciApp_cross_period_persisted_keys == {}

StakingAbciApp_cross_period_persisted_keys == {"service_staking_state"}

\* db_pre_conditions: round -> the keys it requires
StakingAbciApp_db_pre_conditions == [CallCheckpointRound |-> {}]

Mutant_StakingAbciApp_db_post_conditions ==
    [CheckpointCallPreparedRound |->
        {"tx_submitter", "most_voted_tx_hash", "service_staking_state"},
     FinishedStakingRound |-> {"service_staking_state"}]

\* db_post_conditions: round -> the keys it guarantees
StakingAbciApp_db_post_conditions ==
    [CheckpointCallPreparedRound |->
        {"tx_submitter", "most_voted_tx_hash", "service_staking_state"},
     FinishedStakingRound |-> {"service_staking_state"},
     ServiceEvictedRound |-> {"service_staking_state"}]

Mutant_TxSettlementMultiplexerAbciApp_transition_function ==
    [PostTxSettlementRound |->
        [decision_requesting_done |-> "FinishedDecisionRequestTxRound",
         bet_placement_done |-> "FinishedBetPlacementTxRound",
         round_timeout |-> "PostTxSettlementRound",
         unrecognized |-> "PostTxSettlementRound"],
     FinishedDecisionRequestTxRound |-> <<>>,
     FinishedBetPlacementTxRound |-> <<>>,
     FailedMultiplexerRound |-> <<>>]

TxSettlementMultiplexerAbciApp_transition_function ==
    [PostTxSettlementRound |->
        [decision_requesting_done |-> "FinishedDecisionRequestTxRound",
         bet_placement_done |-> "FinishedBetPlacementTxRound",
         round_timeout |-> "PostTxSettlementRound",
         unrecognized |-> "FailedMultiplexerRound"],
     FinishedDecisionRequestTxRound |-> <<>>,
     FinishedBetPlacementTxRound |-> <<>>,
     FailedMultiplexerRound |-> <<>>]

TxSettlementMultiplexerAbciApp_final_states ==
    {"FinishedDecisionRequestTxRound", "FinishedBetPlacementTxRound",
     "FailedMultiplexerRound"}

TxSettlementMultiplexerAbciApp_event_to_timeout == {ROUND_TIMEOUT}

\* The class declares no cross_period_persisted_keys: it keeps the empty
\* default.
TxSettlementMultiplexerAbciApp_cross_period_persisted_keys == {}

Mutant_TxSettlementMultiplexerAbciApp_db_pre_conditions ==
    [PostTxSettlementRound |-> {}]

TxSettlementMultiplexerAbciApp_db_pre_conditions ==
    [PostTxSettlementRound |-> {"tx_submitter"}]

TxSettlementMultiplexerAbciApp_db_post_conditions ==
    [FinishedDecisionRequestTxRound |-> {},
     FinishedBetPlacementTxRound |-> {},
     FailedMultiplexerRound |-> {}]

\* The class attributes of the app being driven.
transition_function(app) ==
    IF app = "StakingAbciApp" THEN StakingAbciApp_transition_function
    ELSE TxSettlementMultiplexerAbciApp_transition_function

final_states(app) ==
    IF app = "StakingAbciApp" THEN StakingAbciApp_final_states
    ELSE TxSettlementMultiplexerAbciApp_final_states

event_to_timeout(app) ==
    IF app = "StakingAbciApp" THEN StakingAbciApp_event_to_timeout
    ELSE TxSettlementMultiplexerAbciApp_event_to_timeout

cross_period_persisted_keys(app) ==
    IF app = "StakingAbciApp" THEN StakingAbciApp_cross_period_persisted_keys
    ELSE TxSettlementMultiplexerAbciApp_cross_period_persisted_keys

db_pre_conditions(app) ==
    IF app = "StakingAbciApp" THEN StakingAbciApp_db_pre_conditions
    ELSE TxSettlementMultiplexerAbciApp_db_pre_conditions

db_post_conditions(app) ==
    IF app = "StakingAbciApp" THEN StakingAbciApp_db_post_conditions
    ELSE TxSettlementMultiplexerAbciApp_db_post_conditions

initial_round_cls(app) ==
    IF app = "StakingAbciApp" THEN "CallCheckpointRound" ELSE "PostTxSettlementRound"

(***************************************************************************)
(* SynchronizedData                                                        *)
(* The db maps each key to the set holding its value: the empty set when   *)
(* the db does not hold the key.                                           *)
(***************************************************************************)
DbKeys ==
    {"tx_submitter", "most_voted_tx_hash", "service_staking_state",
     "participant_to_checkpoint"}

\* db.get(key, default)
db_get(d, key, default) == IF d[key] = {} THEN default ELSE CHOOSE x \in d[key] : TRUE

\* The StakingState enum of the staking contract.
StakingState(v) ==
    CASE v = 0 -> "UNSTAKED"
      [] v = 1 -> "STAKED"
      [] v = 2 -> "EVICTED"

\* SynchronizedData.tx_submitter: str(db.get_strict("tx_submitter"))
tx_submitter(d) == CHOOSE x \in d["tx_submitter"] : TRUE

\* SynchronizedData.service_staking_state
service_staking_state(d) == StakingState(db_get(d, "service_staking_state", 0))

\* SynchronizedData.most_voted_tx_hash (of the transaction settlement skill)
most_voted_tx_hash(d) == CHOOSE x \in d["most_voted_tx_hash"] : TRUE

(***************************************************************************)
(* Payloads and the collect-same-until-threshold aggregation               *)
(***************************************************************************)
\* The values of a CallCheckpointPayload, in the order of selection_key.
TxHashes == {None, "0xcheckpoint"}

PayloadValues ==
    [tx_submitter : {CallCheckpointRound_auto_round_id},
     tx_hash : TxHashes,
     service_staking_state : 0..2]

EmptyCollection == [a \in {} |-> a]

\* The number of senders whose payload has the values v.
payload_values_count(coll, v) == Cardinality({a \in DOMAIN coll : coll[a] = v})

Mutant_consensus_threshold(n) == n \div 2

\* The quorum threshold for n participants.
consensus_threshold(n) == (n \div 2) + 1

threshold_reached(coll) ==
    \E v \in PayloadValues :
        payload_values_count(coll, v) >= consensus_threshold(NbParticipants)

\* The values with the most votes.
most_voted_payload_values(coll) ==
    CHOOSE v \in PayloadValues :
        \A w \in PayloadValues :
            payload_values_count(coll, v) >= payload_values_count(coll, w)

\* Whether the largest group can still reach the threshold with the votes
\* of the agents that have not sent a payload yet.
is_majority_possible(coll) ==
    LET largest == payload_values_count(coll, most_voted_payload_values(coll))
        missing == NbParticipants - Cardinality(DOMAIN coll)
    IN  largest + missing >= consensus_threshold(NbParticipants)

\* end_block returned None.
NoResult(d) == [ret |-> FALSE, data |-> d, generic |-> None, event |-> None, votes |-> 0]

\* CollectSameUntilThresholdRound.end_block of CallCheckpointRound: the
\* selected values are merged under selection_key, the collection under
\* collection_key.
CollectSameUntilThresholdRound_end_block(coll, d) ==
    IF threshold_reached(coll)
    THEN LET v == most_voted_payload_values(coll)
         IN  [ret |-> TRUE,
              data |-> [d EXCEPT !["participant_to_checkpoint"] = {coll},
                                 !["tx_submitter"] = {v.tx_submitter},
                                 !["most_voted_tx_hash"] = {v.tx_hash},
                                 !["service_staking_state"] = {v.service_staking_state}],
              generic |-> DONE,
              event |-> DONE,
              votes |-> payload_values_count(coll, v)]
    ELSE IF ~is_majority_possible(coll)
    THEN [ret |-> TRUE, data |-> d, generic |-> NO_MAJORITY, event |-> NO_MAJORITY,
          votes |-> 0]
    ELSE NoResult(d)

Mutant_remap_CallCheckpointRound_end_block(coll, d) ==
    LET res == CollectSameUntilThresholdRound_end_block(coll, d)
    IN  IF ~res.ret THEN res
        ELSE IF service_staking_state(res.data) = "UNSTAKED"
        THEN [res EXCEPT !.event = SERVICE_NOT_STAKED]
        ELSE IF service_staking_state(res.data) = "EVICTED"
        THEN [res EXCEPT !.event = SERVICE_EVICTED]
        ELSE IF res.event # DONE THEN res
        ELSE IF most_voted_tx_hash(res.data) = None
        THEN [res EXCEPT !.event = NEXT_CHECKPOINT_NOT_REACHED_YET]
        ELSE res

Mutant_CallCheckpointRound_end_block(coll, d) ==
    LET res == CollectSameUntilThresholdRound_end_block(coll, d)
    IN  IF ~res.ret THEN res
        ELSE IF res.event # DONE THEN res
        ELSE IF most_voted_tx_hash(res.data) = None
        THEN [res EXCEPT !.event = NEXT_CHECKPOINT_NOT_REACHED_YET]
        ELSE IF service_staking_state(res.data) = "UNSTAKED"
        THEN [res EXCEPT !.event = SERVICE_NOT_STAKED]
        ELSE IF service_staking_state(res.data) = "EVICTED"
        THEN [res EXCEPT !.event = SERVICE_EVICTED]
        ELSE res

CallCheckpointRound_end_block(coll, d) ==
    LET res == CollectSameUntilThresholdRound_end_block(coll, d)
    IN  IF ~res.ret THEN res
        ELSE IF res.event # DONE THEN res
        ELSE IF service_staking_state(res.data) = "UNSTAKED"
        THEN [res EXCEPT !.event = SERVICE_NOT_STAKED]
        ELSE IF service_staking_state(res.data) = "EVICTED"
        THEN [res EXCEPT !.event = SERVICE_EVICTED]
        ELSE IF most_voted_tx_hash(res.data) = None
        THEN [res EXCEPT !.event = NEXT_CHECKPOINT_NOT_REACHED_YET]
        ELSE res

Mutant_submitter_to_event(submitter) ==
    IF submitter = DecisionRequestRound_auto_round_id THEN DECISION_REQUESTING_DONE
    ELSE IF submitter = BetPlacementRound_auto_round_id THEN BET_PLACEMENT_DONE
    ELSE IF submitter = CallCheckpointRound_auto_round_id THEN BET_PLACEMENT_DONE
    ELSE UNRECOGNIZED

\* submitter_to_event.get(submitter, Event.UNRECOGNIZED)
submitter_to_event(submitter) ==
    IF submitter = DecisionRequestRound_auto_round_id THEN DECISION_REQUESTING_DONE
    ELSE IF submitter = BetPlacementRound_auto_round_id THEN BET_PLACEMENT_DONE
    ELSE UNRECOGNIZED

\* end_block recording the event's submitter as handled in the returned data.
Mutant_write_PostTxSettlementRound_end_block(d) ==
    LET event == submitter_to_event(tx_submitter(d))
    IN  [ret |-> TRUE,
         data |-> IF event = UNRECOGNIZED THEN d ELSE [d EXCEPT !["tx_submitter"] = {""}],
         generic |-> event, event |-> event, votes |-> 0]

Mutant_PostTxSettlementRound_end_block(d) ==
    LET event == submitter_to_event(tx_submitter(d))
    IN  IF event = UNRECOGNIZED THEN NoResult(d)
        ELSE [ret |-> TRUE, data |-> d, generic |-> event, event |-> event, votes |-> 0]

PostTxSettlementRound_end_block(d) ==
    LET event == submitter_to_event(tx_submitter(d))
    IN  [ret |-> TRUE, data |-> d, generic |-> event, event |-> event, votes |-> 0]

\* ServiceEvictedRound.end_block: its body is the docstring, it returns None.
ServiceEvictedRound_end_block(d) == NoResult(d)

\* The end_block of the current round.
end_block(round, coll, d) ==
    CASE round = "CallCheckpointRound" -> CallCheckpointRound_end_block(coll, d)
      [] round = "PostTxSettlementRound" -> PostTxSettlementRound_end_block(d)
      [] round = "ServiceEvictedRound" -> ServiceEvictedRound_end_block(d)

(***************************************************************************)
(* The round driver                                                        *)
(***************************************************************************)
\* AbciApp.process_event: the next round, DeadEnd when the table has no
\* entry for (round, event).
process_event(app, round, event) ==
    LET row == transition_function(app)[round]
    IN  IF event \in DOMAIN row THEN row[event] ELSE DeadEnd

\* The rounds whose end_block the driver calls.
HasEndBlock(app, round) ==
    \/ round \in DOMAIN transition_function(app) /\ round \notin final_states(app)
    \/ round = "ServiceEvictedRound"

\* The tx_submitter values the multiplexer is entered with.
Submitters ==
    {DecisionRequestRound_auto_round_id, BetPlacementRound_auto_round_id,
     CallCheckpointRound_auto_round_id, SubscriptionRound_auto_round_id, ""}

\* The dbs an app is entered with: PostTxSettlementRound requires
\* tx_submitter (db_pre_conditions), CallCheckpointRound requires nothing.
InitialDbs(app) ==
    IF app = "StakingAbciApp"
    THEN {[k \in DbKeys |-> IF k = "service_staking_state" THEN s ELSE {}] :
            s \in {{}, {2}}}
    ELSE {[k \in DbKeys |->
              CASE k = "tx_submitter" -> {s}
                [] k = "most_voted_tx_hash" -> {h}
                [] k = "service_staking_state" -> st
                [] OTHER -> {}] :
            s \in Submitters, h \in TxHashes, st \in {{}, {1}}}

AppInit ==
    /\ abci_app \in {"StakingAbciApp", "TxSettlementMultiplexerAbciApp"}
    /\ current_round = initial_round_cls(abci_app)
    /\ collection = EmptyCollection
    /\ db \in InitialDbs(abci_app)
    /\ latest_result = NoResult(db)
    /\ last_event = None

\* A participant's payload reaches the current round; a later payload of
\* the same sender replaces the earlier one.
ProcessPayload ==
    /\ current_round = "CallCheckpointRound"
    /\ \E sender \in Agents, v \in PayloadValues :
          collection' = [a \in DOMAIN collection \cup {sender} |->
                            IF a = sender THEN v ELSE collection[a]]
    /\ UNCHANGED <<abci_app, current_round, db, latest_result, last_event>>
    /\ UNCHANGED <<kpiVars, orderVars, fetchVars>>

\* The driver calls end_block of the current round; on a result it stores
\* the returned data and moves to the round the table gives for the event.
EndBlock ==
    /\ HasEndBlock(abci_app, current_round)
    /\ LET res == end_block(current_round, collection, db)
       IN  /\ latest_result' = res
           /\ IF res.ret
              THEN /\ db' = res.data
                   /\ current_round' = process_event(abci_app, current_round, res.event)
                   /\ collection' = EmptyCollection
                   /\ last_event' = res.event
              ELSE UNCHANGED <<db, current_round, collection, last_event>>
    /\ UNCHANGED abci_app
    /\ UNCHANGED <<kpiVars, orderVars, fetchVars>>

\* The driver synthesizes the round's timeout event.
Timeout ==
    /\ current_round \in DOMAIN transition_function(abci_app)
    /\ \E event \in event_to_timeout(abci_app) :
          /\ event \in DOMAIN transition_function(abci_app)[current_round]
          /\ current_round' = process_event(abci_app, current_round, event)
          /\ last_event' = event
    /\ collection' = EmptyCollection
    /\ UNCHANGED <<abci_app, db, latest_result>>
    /\ UNCHANGED <<kpiVars, orderVars, fetchVars>>

\* The db of the next period: the cross-period persisted keys keep their
\* values, every other key is dropped.
period_reset(app, d) ==
    [key \in DbKeys |-> IF key \in cross_period_persisted_keys(app) THEN d[key] ELSE {}]

\* The cycle of the staking app has ended in a final round and the service
\* starts the next period: the app is entered again with the reset db.
PeriodReset ==
    /\ abci_app = "StakingAbciApp"
    /\ current_round \in final_states(abci_app)
    /\ db' = period_reset(abci_app, db)
    /\ current_round' = initial_round_cls(abci_app)
    /\ collection' = EmptyCollection
    /\ latest_result' = NoResult(db')
    /\ last_event' = None
    /\ UNCHANGED abci_app
    /\ UNCHANGED <<kpiVars, orderVars, fetchVars>>

(***************************************************************************)
(* Unbounded integers                                                      *)
(* The liveness ratio and its products exceed the checker's integers, so   *)
(* they are sequences of base-1000 digits, least significant first.        *)
(***************************************************************************)
Limb(x, i) == IF i <= Len(x) THEN x[i] ELSE 0

BigIsZero(x) == \A i \in 1..Len(x) : x[i] = 0

RECURSIVE BigMulCarry(_, _, _)
BigMulCarry(x, m, carry) ==
    IF x = <<>>
    THEN IF carry = 0 THEN <<>>
         ELSE <<carry % 1000>> \o BigMulCarry(<<>>, m, carry \div 1000)
    ELSE LET t == Head(x) * m + carry
         IN  <<t % 1000>> \o BigMulCarry(Tail(x), m, t \div 1000)

\* x * m for an integer m
BigMul(x, m) == BigMulCarry(x, m, 0)

RECURSIVE BigShl(_, _)
\* x * 2^n
BigShl(x, n) ==
    IF n <= 10 THEN BigMul(x, 2^n) ELSE BigShl(BigMul(x, 2^10), n - 10)

RECURSIVE BigToInt(_)
BigToInt(x) == IF x = <<>> THEN 0 ELSE Head(x) + 1000 * BigToInt(Tail(x))

RECURSIVE BigLeqFrom(_, _, _)
BigLeqFrom(x, y, i) ==
    IF i = 0 THEN TRUE
    ELSE IF Limb(x, i) # Limb(y, i) THEN Limb(x, i) < Limb(y, i)
    ELSE BigLeqFrom(x, y, i - 1)

\* x <= y
BigLeq(x, y) == BigLeqFrom(x, y, IF Len(x) > Len(y) THEN Len(x) ELSE Len(y))

RECURSIVE FloorLog2(_)
FloorLog2(k) == IF k <= 1 THEN 0 ELSE 1 + FloorLog2(k \div 2)

(***************************************************************************)
(* The staking KPI arithmetic of is_staking_kpi_met                        *)
(***************************************************************************)
\* 10**18
LIVENESS_RATIO_SCALE_FACTOR == <<0, 0, 0, 0, 0, 0, 1>>

REQUIRED_MECH_REQUESTS_SAFETY_MARGIN == 1

\* The bits of the significand of a Python float.
FloatMantissaBits == 53

\* The scale factor is 1000^ScaleLimbs, so dividing by it splits the digits.
ScaleLimbs == Len(LIVENESS_RATIO_SCALE_FACTOR) - 1

\* x // 10**18 and x % 10**18
ScaleQuotient(x) ==
    IF Len(x) <= ScaleLimbs THEN 0 ELSE BigToInt(SubSeq(x, ScaleLimbs + 1, Len(x)))

ScaleRemainder(x) == [i \in 1..ScaleLimbs |-> Limb(x, i)]

\* x / LIVENESS_RATIO_SCALE_FACTOR: the true division of two Python ints,
\* which gives the float nearest to the exact quotient (ties to even).  The
\* float is kept as its integer part and whether it lies above it:
\* floor < value <= floor + 1 when above, value = floor otherwise.  With
\* k = x // 10**18 >= 1, r = x % 10**18 and 2^e <= k < 2^(e+1), the floats
\* around k are 2^(e-52) apart, so the quotient rounds down to k iff
\* r / 10**18 <= 2^(e-53) (a tie rounds to k, whose significand is even).
TrueDivScale(x) ==
    LET quotient == ScaleQuotient(x)
        remainder == ScaleRemainder(x)
    IN  IF BigIsZero(remainder) THEN [floor |-> quotient, above |-> FALSE]
        ELSE IF quotient = 0 THEN [floor |-> 0, above |-> TRUE]
        ELSE [floor |-> quotient,
              above |-> ~BigLeq(BigShl(remainder,
                                       FloatMantissaBits - FloorLog2(quotient)),
                                LIVENESS_RATIO_SCALE_FACTOR)]

\* max of two floats
FloatMax(a, b) ==
    IF a.floor > b.floor \/ (a.floor = b.floor /\ a.above) THEN a ELSE b

\* math.ceil
FloatCeil(a) == IF a.above THEN a.floor + 1 ELSE a.floor

\* required_mech_requests of is_staking_kpi_met
required_mech_requests(current_timestamp, last_ts_checkpoint, liveness_period, liveness_ratio) ==
    FloatCeil(FloatMax(
        TrueDivScale(BigMul(liveness_ratio, current_timestamp - last_ts_checkpoint)),
        TrueDivScale(BigMul(liveness_ratio, liveness_period))))
    + REQUIRED_MECH_REQUESTS_SAFETY_MARGIN

Mutant_staking_kpi_decision(mech_requests_since_last_cp, required) ==
    mech_requests_since_last_cp > required

\* the final comparison of is_staking_kpi_met
staking_kpi_decision(mech_requests_since_last_cp, required) ==
    mech_requests_since_last_cp >= required

(***************************************************************************)
(* CheckStopTradingBehaviour                                               *)
(***************************************************************************)
\* What the contracts and the round sequence return.
MechRequestCounts == {2, 3, 3600, 3601, 3602}
CheckpointRequestCounts == {0, 1}
SyncedTimestamps == {7200}
CheckpointTimestamps == {3600, 7199, 7200}
LivenessPeriods == {0, 1, 3600}
LivenessRatios ==
    { <<>>,                             \* 0
      <<0, 0, 0, 0, 0, 0, 1>>,          \* 10^18: one call per second
      <<1, 0, 0, 0, 0, 0, 1>>,          \* 10^18 + 1
      <<50, 0, 0, 0, 0, 0, 1>>,         \* 10^18 + 50
      <<0, 0, 0, 0, 0, 500>>,           \* 5 * 10^17
      <<778, 777, 777, 777, 277>> }     \* 277777777777778: one call per hour

\* The attributes before any fetch has set them.
KpiUnset ==
    [service_staking_state |-> -1, mech_request_count |-> -1,
     mech_request_count_on_last_checkpoint |-> -1, ts_checkpoint |-> -1,
     liveness_period |-> -1, liveness_ratio |-> <<>>]

KpiNoOutput ==
    [evaluated |-> FALSE, computed |-> FALSE, required |-> -1,
     staking_kpi_met |-> FALSE, stop_trading |-> FALSE, payloads |-> <<>>]

KpiFetches ==
    {"check_service_staked", "get_mech_request_count", "get_service_info",
     "get_ts_checkpoint", "get_liveness_period", "get_liveness_ratio"}

KpiInit ==
    /\ kpi_pc = "start"
    /\ kpi_params \in [period_count : {0, 1},
                       disable_trading : BOOLEAN,
                       stop_trading_if_staking_kpi_met : BOOLEAN,
                       synced_timestamp : SyncedTimestamps]
    /\ kpi_attrs = KpiUnset
    /\ kpi_calls = <<>>
    /\ kpi_failed = 0
    /\ kpi_out = KpiNoOutput

\* is_first_period never holding
Mutant_is_first_period(params) == params.period_count < 0

\* is_first_period
is_first_period(params) == params.period_count = 0

\* stop_trading = any(stop_trading_conditions), with the payload built from it
KpiFinish(conditions) ==
    /\ kpi_pc' = "send"
    /\ kpi_out' = [kpi_out EXCEPT !.stop_trading = \E i \in 1..Len(conditions) : conditions[i]]

\* async_act up to its first suspension
KpiStart ==
    /\ kpi_pc = "start"
    /\ IF is_first_period(kpi_params)
       THEN /\ kpi_pc' = "send"
            /\ kpi_out' = [kpi_out EXCEPT !.stop_trading = FALSE]
       ELSE IF kpi_params.stop_trading_if_staking_kpi_met
       THEN /\ kpi_pc' = "check_service_staked"
            /\ UNCHANGED kpi_out
       ELSE KpiFinish(<<kpi_params.disable_trading>>)
    /\ UNCHANGED <<kpi_params, kpi_attrs, kpi_calls, kpi_failed>>
    /\ UNCHANGED <<appVars, orderVars, fetchVars>>

\* wait_for_condition_with_sleep: the condition failed, the behaviour sleeps
\* and tries the same fetch again.
KpiFetchFailed ==
    /\ kpi_pc \in KpiFetches
    /\ kpi_failed < MaxFetchFailures
    /\ kpi_failed' = kpi_failed + 1
    /\ UNCHANGED <<kpi_pc, kpi_params, kpi_attrs, kpi_calls, kpi_out>>
    /\ UNCHANGED <<appVars, orderVars, fetchVars>>

\* async_act taking the result of is_staking_kpi_met as stop_trading
Mutant_KpiReturn(met) ==
    /\ kpi_pc' = "send"
    /\ kpi_out' = [kpi_out EXCEPT
                      !.evaluated = TRUE,
                      !.staking_kpi_met = met,
                      !.stop_trading = met]

\* is_staking_kpi_met returns, async_act appends its result to the conditions
KpiReturn(met) ==
    /\ kpi_pc' = "send"
    /\ kpi_out' = [kpi_out EXCEPT
                      !.evaluated = TRUE,
                      !.staking_kpi_met = met,
                      !.stop_trading = kpi_params.disable_trading \/ met]

\* is_staking_kpi_met returning at once for an UNSTAKED service only
Mutant_KpiCheckServiceStaked ==
    /\ kpi_pc = "check_service_staked"
    /\ \E state \in 0..2 :
          /\ kpi_attrs' = [kpi_attrs EXCEPT !.service_staking_state = state]
          /\ IF StakingState(state) = "UNSTAKED"
             THEN KpiReturn(FALSE)
             ELSE kpi_pc' = "get_mech_request_count" /\ UNCHANGED kpi_out
    /\ kpi_calls' = Append(kpi_calls, "check_service_staked")
    /\ UNCHANGED <<kpi_params, kpi_failed>>
    /\ UNCHANGED <<appVars, orderVars, fetchVars>>

\* _check_service_staked succeeded
KpiCheckServiceStaked ==
    /\ kpi_pc = "check_service_staked"
    /\ \E state \in 0..2 :
          /\ kpi_attrs' = [kpi_attrs EXCEPT !.service_staking_state = state]
          /\ IF StakingState(state) # "STAKED"
             THEN KpiReturn(FALSE)
             ELSE kpi_pc' = "get_mech_request_count" /\ UNCHANGED kpi_out
    /\ kpi_calls' = Append(kpi_calls, "check_service_staked")
    /\ UNCHANGED <<kpi_params, kpi_failed>>
    /\ UNCHANGED <<appVars, orderVars, fetchVars>>

\* _get_mech_request_count succeeded
KpiGetMechRequestCount ==
    /\ kpi_pc = "get_mech_request_count"
    /\ \E count \in MechRequestCounts :
          kpi_attrs' = [kpi_attrs EXCEPT !.mech_request_count = count]
    /\ kpi_pc' = "get_service_info"
    /\ kpi_calls' = Append(kpi_calls, "get_mech_request_count")
    /\ UNCHANGED <<kpi_params, kpi_failed, kpi_out>>
    /\ UNCHANGED <<appVars, orderVars, fetchVars>>

Mutant_KpiGetServiceInfo ==
    /\ kpi_pc = "get_service_info"
    /\ \E count \in CheckpointRequestCounts :
          kpi_attrs' = [kpi_attrs EXCEPT !.mech_request_count_on_last_checkpoint = count]
    /\ kpi_pc' = "get_liveness_period"
    /\ kpi_calls' = Append(kpi_calls, "get_service_info")
    /\ UNCHANGED <<kpi_params, kpi_failed, kpi_out>>
    /\ UNCHANGED <<appVars, orderVars, fetchVars>>

\* _get_service_info succeeded: service_info[2][1]
KpiGetServiceInfo ==
    /\ kpi_pc = "get_service_info"
    /\ \E count \in CheckpointRequestCounts :
          kpi_attrs' = [kpi_attrs EXCEPT !.mech_request_count_on_last_checkpoint = count]
    /\ kpi_pc' = "get_ts_checkpoint"
    /\ kpi_calls' = Append(kpi_calls, "get_service_info")
    /\ UNCHANGED <<kpi_params, kpi_failed, kpi_out>>
    /\ UNCHANGED <<appVars, orderVars, fetchVars>>

\* _get_ts_checkpoint succeeded
KpiGetTsCheckpoint ==
    /\ kpi_pc = "get_ts_checkpoint"
    /\ \E ts \in CheckpointTimestamps :
          kpi_attrs' = [kpi_attrs EXCEPT !.ts_checkpoint = ts]
    /\ kpi_pc' = "get_liveness_period"
    /\ kpi_calls' = Append(kpi_calls, "get_ts_checkpoint")
    /\ UNCHANGED <<kpi_params, kpi_failed, kpi_out>>
    /\ UNCHANGED <<appVars, orderVars, fetchVars>>

\* _get_liveness_period succeeded
KpiGetLivenessPeriod ==
    /\ kpi_pc = "get_liveness_period"
    /\ \E period \in LivenessPeriods :
          kpi_attrs' = [kpi_attrs EXCEPT !.liveness_period = period]
    /\ kpi_pc' = "get_liveness_ratio"
    /\ kpi_calls' = Append(kpi_calls, "get_liveness_period")
    /\ UNCHANGED <<kpi_params, kpi_failed, kpi_out>>
    /\ UNCHANGED <<appVars, orderVars, fetchVars>>

\* _get_liveness_ratio succeeded: the rest of is_staking_kpi_met runs, and
\* async_act up to the sending of the payload
KpiGetLivenessRatio ==
    /\ kpi_pc = "get_liveness_ratio"
    /\ \E ratio \in LivenessRatios :
          LET mech_requests_since_last_cp ==
                  kpi_attrs.mech_request_count
                      - kpi_attrs.mech_request_count_on_last_checkpoint
              required ==
                  required_mech_requests(kpi_params.synced_timestamp,
                                         kpi_attrs.ts_checkpoint,
                                         kpi_attrs.liveness_period, ratio)
              met == staking_kpi_decision(mech_requests_since_last_cp, required)
          IN  /\ kpi_attrs' = [kpi_attrs EXCEPT !.liveness_ratio = ratio]
              /\ kpi_pc' = "send"
              /\ kpi_out' = [kpi_out EXCEPT
                                !.evaluated = TRUE,
                                !.computed = TRUE,
                                !.required = required,
                                !.staking_kpi_met = met,
                                !.stop_trading = kpi_params.disable_trading \/ met]
    /\ kpi_calls' = Append(kpi_calls, "get_liveness_ratio")
    /\ UNCHANGED <<kpi_params, kpi_failed>>
    /\ UNCHANGED <<appVars, orderVars, fetchVars>>

\* send_a2a_transaction(payload)
KpiSendA2ATransaction ==
    /\ kpi_pc = "send"
    /\ kpi_out' = [kpi_out EXCEPT !.payloads = Append(@, kpi_out.stop_trading)]
    /\ kpi_pc' = "wait_until_round_end"
    /\ UNCHANGED <<kpi_params, kpi_attrs, kpi_calls, kpi_failed>>
    /\ UNCHANGED <<appVars, orderVars, fetchVars>>

\* wait_until_round_end returned: set_done
KpiSetDone ==
    /\ kpi_pc = "wait_until_round_end"
    /\ kpi_pc' = "done"
    /\ UNCHANGED <<kpi_params, kpi_attrs, kpi_calls, kpi_failed, kpi_out>>
    /\ UNCHANGED <<appVars, orderVars, fetchVars>>

(***************************************************************************)
(* OrderSubscriptionBehaviour                                              *)
(***************************************************************************)
\* SubscriptionRound.NO_TX_PAYLOAD and SubscriptionRound.ERROR_PAYLOAD
NO_TX_PAYLOAD == "no_tx"
ERROR_PAYLOAD == "error"

\* What the contracts, generate_id() and the multisend build return.
Balances == {0, 1, 2}
AgreementIds == {"0xagreement1", "0xagreement2"}
TxHexes == {"0xsafetx1", "0xsafetx2"}
ApprovalTxs == {"0xapproval1", "0xapproval2"}
OrderTxs == {"0xorder1", "0xorder2"}

MultisendBatch(to, data) == [to |-> to, data |-> data]

\* The contract calls and the DID resolution of the purchase flow.
PurchaseSteps == {"balance_of", "build_approval_tx", "resolve_did", "build_order_tx"}

\* The DID documents _resolve_did can return.
DidDocs == {"did_doc_1", "did_doc_2"}

\* get_agreement_id: the hash of the seed and the creator
get_agreement_id(agreement_id_seed, creator) ==
    [agreement_id_seed |-> agreement_id_seed, creator |-> creator]

\* get_price: the receivers and amounts of the document's price terms
get_price(did_doc) ==
    [receivers |-> <<"receivers", did_doc>>, amounts |-> <<"amounts", did_doc>>]

\* The id of a condition: the hash of the agreement id, the address of the
\* condition contract and the seed of the condition.
condition_id(agreement_id, address, seed) ==
    [agreement_id |-> agreement_id, address |-> address, seed |-> seed]

\* get_lock_payment_seed: (seed, id)
get_lock_payment_seed(agreement_id, did_doc, lock_address, escrow_address, token, amounts, receivers) ==
    LET seed == [condition |-> "lock_payment", did_doc |-> did_doc,
                 escrow_address |-> escrow_address, token |-> token,
                 amounts |-> amounts, receivers |-> receivers]
    IN  [seed |-> seed, id |-> condition_id(agreement_id, lock_address, seed)]

\* get_transfer_nft_condition_seed: (seed, id)
get_transfer_nft_condition_seed(agreement_id, did_doc, buyer, nft_amount, transfer_address, lock_payment_id, nft_contract) ==
    LET seed == [condition |-> "transfer_nft", did_doc |-> did_doc, buyer |-> buyer,
                 nft_amount |-> nft_amount, lock_payment_id |-> lock_payment_id,
                 nft_contract |-> nft_contract]
    IN  [seed |-> seed, id |-> condition_id(agreement_id, transfer_address, seed)]

\* get_escrow_payment_seed: (seed, id)
get_escrow_payment_seed(agreement_id, did_doc, amounts, receivers, buyer, escrow_address, token, lock_payment_id, transfer_nft_condition_id) ==
    LET seed == [condition |-> "escrow_payment", did_doc |-> did_doc,
                 amounts |-> amounts, receivers |-> receivers, buyer |-> buyer,
                 token |-> token, lock_payment_id |-> lock_payment_id,
                 transfer_nft_condition_id |-> transfer_nft_condition_id]
    IN  [seed |-> seed, id |-> condition_id(agreement_id, escrow_address, seed)]

Mutant_get_condition_ids(agreement_id_seed, did_doc) ==
    LET agreement_id == get_agreement_id(agreement_id_seed, "safe_contract_address")
        price == get_price(did_doc)
        lock_payment ==
            get_lock_payment_seed(agreement_id, did_doc, "lock_payment_condition_address",
                                  "escrow_payment_condition_address", "payment_token",
                                  price.amounts, price.receivers)
        transfer_nft_condition ==
            get_transfer_nft_condition_seed(agreement_id, did_doc, "safe_contract_address",
                                            "purchase_amount",
                                            "transfer_nft_condition_address",
                                            lock_payment.id, "token_address")
        escrow_payment ==
            get_escrow_payment_seed(agreement_id, did_doc, price.amounts, price.receivers,
                                    "safe_contract_address",
                                    "escrow_payment_condition_address", "payment_token",
                                    transfer_nft_condition.id, lock_payment.id)
    IN  [agreement_id |-> agreement_id,
         condition_ids |->
            <<lock_payment.seed, transfer_nft_condition.seed, escrow_payment.seed>>]

\* _get_condition_ids: sets self.agreement_id and returns the three seeds
get_condition_ids(agreement_id_seed, did_doc) ==
    LET agreement_id == get_agreement_id(agreement_id_seed, "safe_contract_address")
        price == get_price(did_doc)
        lock_payment ==
            get_lock_payment_seed(agreement_id, did_doc, "lock_payment_condition_address",
                                  "escrow_payment_condition_address", "payment_token",
                                  price.amounts, price.receivers)
        transfer_nft_condition ==
            get_transfer_nft_condition_seed(agreement_id, did_doc, "safe_contract_address",
                                            "purchase_amount",
                                            "transfer_nft_condition_address",
                                            lock_payment.id, "token_address")
        escrow_payment ==
            get_escrow_payment_seed(agreement_id, did_doc, price.amounts, price.receivers,
                                    "safe_contract_address",
                                    "escrow_payment_condition_address", "payment_token",
                                    lock_payment.id, transfer_nft_condition.id)
    IN  [agreement_id |-> agreement_id,
         condition_ids |->
            <<lock_payment.seed, transfer_nft_condition.seed, escrow_payment.seed>>]

OrderNoOutput ==
    [returned |-> FALSE, payload_data |-> None, agreement_id |-> "",
     condition_ids |-> <<>>, sent |-> <<>>]

OrderInit ==
    /\ order_pc = "start"
    /\ order_params \in [use_nevermined : BOOLEAN]
    /\ balance = 0
    /\ multisend_batches = <<>>
    /\ order_calls = <<>>
    /\ order_failed = 0
    /\ order_out = OrderNoOutput

\* get_payload_content returns: async_act goes on to build the payload
OrderReturn(content) ==
    /\ order_pc' = "finish_behaviour"
    /\ order_out' = [order_out EXCEPT !.returned = TRUE, !.payload_data = content]

\* async_act, get_payload_content and _should_purchase up to the balance call
OrderStart ==
    /\ order_pc = "start"
    /\ IF ~order_params.use_nevermined
       THEN OrderReturn(NO_TX_PAYLOAD)
       ELSE order_pc' = "get_balance" /\ UNCHANGED order_out
    /\ UNCHANGED <<order_params, balance, multisend_batches, order_calls, order_failed>>
    /\ UNCHANGED <<appVars, kpiVars, fetchVars>>

\* _get_balance returned: the rest of _should_purchase, and get_payload_content
\* up to the approval call
OrderGetBalance ==
    /\ order_pc = "get_balance"
    /\ \E result \in BOOLEAN :
          /\ order_calls' = Append(order_calls, [step |-> "balance_of", ok |-> result])
          /\ IF ~result
             THEN /\ OrderReturn(NO_TX_PAYLOAD)
                  /\ UNCHANGED balance
             ELSE \E b \in Balances :
                    /\ balance' = b
                    /\ IF b <= 0
                       THEN order_pc' = "prepare_approval_tx" /\ UNCHANGED order_out
                       ELSE OrderReturn(NO_TX_PAYLOAD)
    /\ UNCHANGED <<order_params, multisend_batches, order_failed>>
    /\ UNCHANGED <<appVars, kpiVars, fetchVars>>

\* _prepare_approval_tx appending the batch before it tests the result
Mutant_OrderPrepareApprovalTx ==
    /\ order_pc = "prepare_approval_tx"
    /\ \E result \in BOOLEAN :
          /\ order_calls' = Append(order_calls, [step |-> "build_approval_tx", ok |-> result])
          /\ \E approval_tx \in ApprovalTxs :
                multisend_batches' =
                    Append(multisend_batches, MultisendBatch("payment_token", approval_tx))
          /\ IF ~result
             THEN OrderReturn(ERROR_PAYLOAD)
             ELSE order_pc' = "get_purchase_params" /\ UNCHANGED order_out
    /\ UNCHANGED <<order_params, balance, order_failed>>
    /\ UNCHANGED <<appVars, kpiVars, fetchVars>>

\* _prepare_approval_tx returned
OrderPrepareApprovalTx ==
    /\ order_pc = "prepare_approval_tx"
    /\ \E result \in BOOLEAN :
          /\ order_calls' = Append(order_calls, [step |-> "build_approval_tx", ok |-> result])
          /\ IF ~result
             THEN /\ OrderReturn(ERROR_PAYLOAD)
                  /\ UNCHANGED multisend_batches
             ELSE /\ \E approval_tx \in ApprovalTxs :
                        multisend_batches' =
                            Append(multisend_batches,
                                   MultisendBatch("payment_token", approval_tx))
                  /\ order_pc' = "get_purchase_params"
                  /\ UNCHANGED order_out
    /\ UNCHANGED <<order_params, balance, order_failed>>
    /\ UNCHANGED <<appVars, kpiVars, fetchVars>>

\* _get_purchase_params: _resolve_did returned; with a document the
\* agreement id is set by _get_condition_ids
OrderGetPurchaseParams ==
    /\ order_pc = "get_purchase_params"
    /\ \E result \in BOOLEAN :
          /\ order_calls' = Append(order_calls, [step |-> "resolve_did", ok |-> result])
          /\ IF ~result
             THEN OrderReturn(ERROR_PAYLOAD)
             ELSE /\ order_pc' = "prepare_order_tx"
                  /\ \E agreement_id_seed \in AgreementIds, did_doc \in DidDocs :
                        LET ids == get_condition_ids(agreement_id_seed, did_doc)
                        IN  order_out' = [order_out EXCEPT
                                             !.agreement_id = ids.agreement_id,
                                             !.condition_ids = ids.condition_ids]
    /\ UNCHANGED <<order_params, balance, multisend_batches, order_failed>>
    /\ UNCHANGED <<appVars, kpiVars, fetchVars>>

\* _prepare_order_tx returned
OrderPrepareOrderTx ==
    /\ order_pc = "prepare_order_tx"
    /\ \E result \in BOOLEAN :
          /\ order_calls' = Append(order_calls, [step |-> "build_order_tx", ok |-> result])
          /\ IF ~result
             THEN /\ OrderReturn(ERROR_PAYLOAD)
                  /\ UNCHANGED multisend_batches
             ELSE /\ \E order_tx \in OrderTxs :
                        multisend_batches' =
                            Append(multisend_batches,
                                   MultisendBatch("order_address", order_tx))
                  /\ order_pc' = "build_multisend_data"
                  /\ UNCHANGED order_out
    /\ UNCHANGED <<order_params, balance, order_failed>>
    /\ UNCHANGED <<appVars, kpiVars, fetchVars>>

\* wait_for_condition_with_sleep: a build step failed, the behaviour sleeps
\* and tries it again.
OrderBuildStepFailed ==
    /\ order_pc \in {"build_multisend_data", "build_multisend_safe_tx_hash"}
    /\ order_failed < MaxFetchFailures
    /\ order_failed' = order_failed + 1
    /\ UNCHANGED <<order_pc, order_params, balance, multisend_batches, order_calls,
                   order_out>>
    /\ UNCHANGED <<appVars, kpiVars, fetchVars>>

\* _build_multisend_data succeeded
OrderBuildMultisendData ==
    /\ order_pc = "build_multisend_data"
    /\ order_pc' = "build_multisend_safe_tx_hash"
    /\ order_calls' = Append(order_calls, [step |-> "build_multisend_data", ok |-> TRUE])
    /\ UNCHANGED <<order_params, balance, multisend_batches, order_failed, order_out>>
    /\ UNCHANGED <<appVars, kpiVars, fetchVars>>

\* _build_multisend_safe_tx_hash succeeded: get_payload_content returns tx_hex
OrderBuildMultisendSafeTxHash ==
    /\ order_pc = "build_multisend_safe_tx_hash"
    /\ \E tx_hex \in TxHexes : OrderReturn(tx_hex)
    /\ order_calls' =
          Append(order_calls, [step |-> "build_multisend_safe_tx_hash", ok |-> TRUE])
    /\ UNCHANGED <<order_params, balance, multisend_batches, order_failed>>
    /\ UNCHANGED <<appVars, kpiVars, fetchVars>>

Mutant_OrderSendA2ATransaction ==
    /\ order_pc = "finish_behaviour"
    /\ order_out' =
          [order_out EXCEPT
              !.sent = Append(@, [tx_submitter |-> SubscriptionRound_auto_round_id,
                                  tx_hash |-> order_out.payload_data,
                                  agreement_id |-> order_out.agreement_id])]
    /\ order_pc' = "done"
    /\ UNCHANGED <<order_params, balance, multisend_batches, order_calls, order_failed>>
    /\ UNCHANGED <<appVars, kpiVars, fetchVars>>

\* async_act builds the SubscriptionPayload; finish_behaviour sends it
OrderSendA2ATransaction ==
    /\ order_pc = "finish_behaviour"
    /\ order_out' =
          [order_out EXCEPT
              !.sent = Append(@, [tx_submitter |-> SubscriptionRound_auto_round_id,
                                  tx_hash |-> order_out.payload_data,
                                  agreement_id |-> order_out.agreement_id])]
    /\ order_pc' = "wait_until_round_end"
    /\ UNCHANGED <<order_params, balance, multisend_batches, order_calls, order_failed>>
    /\ UNCHANGED <<appVars, kpiVars, fetchVars>>

\* finish_behaviour: wait_until_round_end returned, set_done
OrderSetDone ==
    /\ order_pc = "wait_until_round_end"
    /\ order_pc' = "done"
    /\ UNCHANGED <<order_params, balance, multisend_batches, order_calls, order_failed,
                   order_out>>
    /\ UNCHANGED <<appVars, kpiVars, fetchVars>>

(***************************************************************************)
(* QueryingBehaviour (market_manager_abci/graph_tooling/requests.py)       *)
(*                                                                         *)
(* The behaviour is driven by the loop                                     *)
(*     while self._prepare_bets_fetching(): yield from self._fetch_bets()  *)
(* A market is named by a number of 1..NbMarkets; 0 stands for the empty   *)
(* name "" that _current_market holds before the first market is taken.    *)
(***************************************************************************)
FetchStatus == {"SUCCESS", "IN_PROGRESS", "FAIL", "NONE"}

Markets == 1..NbMarkets

\* The creators lists a market may be configured with.
CreatorLists == {<<"creator_1">>, <<"creator_1", "creator_2">>}

RECURSIVE DistinctSeqs(_, _)
\* The sequences of n distinct elements of S.
DistinctSeqs(S, n) ==
    IF n = 0
    THEN {<<>>}
    ELSE UNION {{<<x>> \o s : s \in DistinctSeqs(S \ {x}, n - 1)} : x \in S}

\* params.creators_iterator: the items of the creator_per_subgraph dict; the
\* keys of a dict are distinct.
CreatorsIterators ==
    UNION {{[i \in 1..n |-> <<ms[i], cs[i]>>] :
                ms \in DistinctSeqs(Markets, n), cs \in [1..n -> CreatorLists]}
           : n \in 0..NbMarkets}

\* What process_response may return that is not None.
FetchResponses == {"[]", "bets"}

\* ApiSpecs.increment_retries, on the subgraph's retries_attempted.
increment_retries(attempted) == attempted + 1

\* ApiSpecs.is_retries_exceeded.
is_retries_exceeded(attempted, retries) == attempted > retries

\* ApiSpecs.reset_retries.
reset_retries(attempted) == 0

\* _prepare_bets_fetching taking the next market whenever the status is not
\* FAIL.
Mutant_prepare_bets_fetching(status, iterator, market, creators) ==
    IF status = "FAIL" \/ iterator = <<>>
    THEN [ret |-> FALSE, status |-> status, iterator |-> iterator,
          market |-> market, creators |-> creators]
    ELSE [ret |-> TRUE, status |-> "IN_PROGRESS", iterator |-> Tail(iterator),
          market |-> Head(iterator)[1], creators |-> Head(iterator)[2]]

\* QueryingBehaviour._prepare_bets_fetching, as a function of the attributes
\* it reads; "ret" is the returned flag.
prepare_bets_fetching(status, iterator, market, creators) ==
    LET advance == status \in {"SUCCESS", "NONE"}
        unchanged ==
            [ret |-> FALSE, status |-> status, iterator |-> iterator,
             market |-> market, creators |-> creators]
    IN  IF advance /\ iterator = <<>>
        THEN unchanged
        ELSE LET taken ==
                     IF advance
                     THEN [unchanged EXCEPT !.iterator = Tail(iterator),
                                            !.market = Head(iterator)[1],
                                            !.creators = Head(iterator)[2]]
                     ELSE unchanged
             IN  IF status = "FAIL"
                 THEN taken
                 ELSE [taken EXCEPT !.ret = TRUE, !.status = "IN_PROGRESS"]

\* _handle_response marking a failed call that may be retried as a success.
Mutant_skip_handle_response(res, status, attempted, retries) ==
    IF res = None
    THEN [ret |-> None,
          call_failed |-> TRUE,
          retries_attempted |-> increment_retries(attempted),
          status |-> IF is_retries_exceeded(increment_retries(attempted), retries)
                     THEN "FAIL"
                     ELSE "SUCCESS"]
    ELSE [ret |-> res,
          call_failed |-> FALSE,
          retries_attempted |-> reset_retries(attempted),
          status |-> "SUCCESS"]

\* _handle_response keeping the retries of the subgraph on a response.
Mutant_handle_response(res, status, attempted, retries) ==
    IF res = None
    THEN [ret |-> None,
          call_failed |-> TRUE,
          retries_attempted |-> increment_retries(attempted),
          status |-> IF is_retries_exceeded(increment_retries(attempted), retries)
                     THEN "FAIL"
                     ELSE status]
    ELSE [ret |-> res,
          call_failed |-> FALSE,
          retries_attempted |-> attempted,
          status |-> "SUCCESS"]

\* QueryingBehaviour._handle_response, as a function of the response and of
\* the attributes it reads; "ret" is the returned value.
handle_response(res, status, attempted, retries) ==
    IF res = None
    THEN LET incremented == increment_retries(attempted)
         IN  [ret |-> None,
              call_failed |-> TRUE,
              retries_attempted |-> incremented,
              status |-> IF is_retries_exceeded(incremented, retries)
                         THEN "FAIL"
                         ELSE status]
    ELSE [ret |-> res,
          call_failed |-> FALSE,
          retries_attempted |-> reset_retries(attempted),
          status |-> "SUCCESS"]

FetchInit ==
    /\ fetch_pc = "prepare"
    /\ fetch_params \in [retries : 0..MaxRetries, creators : CreatorsIterators]
    /\ fetch_status = "NONE"
    /\ call_failed = FALSE
    /\ creators_iterator = fetch_params.creators
    /\ current_market = 0
    /\ current_creators = <<>>
    /\ retries_attempted \in [Markets -> 0..(MaxRetries + 1)]
    /\ fetch_log = <<>>
    /\ prepare_ret = {}
    /\ bets = None

\* One call of _prepare_bets_fetching: the test of the loop, or a later call
\* once the loop has ended.
FetchPrepare ==
    /\ fetch_pc \in {"prepare", "done"}
    /\ LET r == prepare_bets_fetching(fetch_status, creators_iterator,
                                      current_market, current_creators)
       IN  /\ fetch_status' = r.status
           /\ creators_iterator' = r.iterator
           /\ current_market' = r.market
           /\ current_creators' = r.creators
           /\ prepare_ret' = {r.ret}
           /\ fetch_pc' = IF r.ret THEN "fetch_bets" ELSE "done"
    /\ UNCHANGED <<fetch_params, call_failed, retries_attempted, fetch_log, bets>>
    /\ UNCHANGED <<appVars, kpiVars, orderVars>>

\* _fetch_bets returning without a response having been processed.
Mutant_FetchBets ==
    /\ fetch_pc = "fetch_bets"
    /\ fetch_status' = "IN_PROGRESS"
    /\ fetch_pc' = "prepare"
    /\ UNCHANGED <<fetch_params, call_failed, creators_iterator, current_market,
                   current_creators, retries_attempted, fetch_log, prepare_ret, bets>>
    /\ UNCHANGED <<appVars, kpiVars, orderVars>>

\* _fetch_bets up to the request it sends.
FetchBets ==
    /\ fetch_pc = "fetch_bets"
    /\ fetch_status' = "IN_PROGRESS"
    /\ fetch_pc' = "get_http_response"
    /\ UNCHANGED <<fetch_params, call_failed, creators_iterator, current_market,
                   current_creators, retries_attempted, fetch_log, prepare_ret, bets>>
    /\ UNCHANGED <<appVars, kpiVars, orderVars>>

\* The response arrives and _handle_response processes it.
FetchHandleResponse ==
    /\ fetch_pc = "get_http_response"
    /\ \E res \in {None} \cup FetchResponses :
          LET h == handle_response(res, fetch_status,
                                   retries_attempted[current_market],
                                   fetch_params.retries)
          IN  /\ call_failed' = h.call_failed
              /\ retries_attempted' =
                     [retries_attempted EXCEPT ![current_market] = h.retries_attempted]
              /\ fetch_status' = h.status
              /\ bets' = h.ret
              /\ fetch_log' =
                     Append(fetch_log,
                            [market |-> current_market, creators |-> current_creators,
                             res |-> res])
              /\ fetch_pc' = IF res = None THEN "sleep" ELSE "prepare"
    /\ UNCHANGED <<fetch_params, creators_iterator, current_market, current_creators,
                   prepare_ret>>
    /\ UNCHANGED <<appVars, kpiVars, orderVars>>

\* The sleep after a failed call ends; _handle_response and _fetch_bets return.
FetchSleep ==
    /\ fetch_pc = "sleep"
    /\ fetch_pc' = "prepare"
    /\ UNCHANGED <<fetch_params, fetch_status, call_failed, creators_iterator,
                   current_market, current_creators, retries_attempted, fetch_log,
                   prepare_ret, bets>>
    /\ UNCHANGED <<appVars, kpiVars, orderVars>>

(***************************************************************************)
(* Idle values of the components a specification does not run              *)
(***************************************************************************)
AppIdle ==
    /\ abci_app = "StakingAbciApp"
    /\ current_round = "CallCheckpointRound"
    /\ collection = EmptyCollection
    /\ db = [k \in DbKeys |-> {}]
    /\ latest_result = NoResult(db)
    /\ last_event = None

KpiIdle ==
    /\ kpi_pc = "idle"
    /\ kpi_params = <<>>
    /\ kpi_attrs = <<>>
    /\ kpi_calls = <<>>
    /\ kpi_failed = 0
    /\ kpi_out = <<>>

FetchIdle ==
    /\ fetch_pc = "idle"
    /\ fetch_params = <<>>
    /\ fetch_status = "NONE"
    /\ call_failed = FALSE
    /\ creators_iterator = <<>>
    /\ current_market = 0
    /\ current_creators = <<>>
    /\ retries_attempted = <<>>
    /\ fetch_log = <<>>
    /\ prepare_ret = {}
    /\ bets = None

OrderIdle ==
    /\ order_pc = "idle"
    /\ order_params = <<>>
    /\ balance = 0
    /\ multisend_batches = <<>>
    /\ order_calls = <<>>
    /\ order_failed = 0
    /\ order_out = <<>>

(***************************************************************************)
(* Specifications                                                          *)
(***************************************************************************)
Init == AppInit /\ KpiIdle /\ OrderIdle /\ FetchIdle

Next == ProcessPayload \/ EndBlock \/ Timeout \/ PeriodReset

Spec == Init /\ [][Next]_vars

InitKpi == KpiInit /\ AppIdle /\ OrderIdle /\ FetchIdle

NextKpi ==
    \/ KpiStart
    \/ KpiFetchFailed
    \/ KpiCheckServiceStaked
    \/ KpiGetMechRequestCount
    \/ KpiGetServiceInfo
    \/ KpiGetTsCheckpoint
    \/ KpiGetLivenessPeriod
    \/ KpiGetLivenessRatio
    \/ KpiSendA2ATransaction
    \/ KpiSetDone

SpecKpi == InitKpi /\ [][NextKpi]_vars

(***************************************************************************)
(* Properties of the two apps (checked under Spec)                         *)
(***************************************************************************)
IsStaking == abci_app = "StakingAbciApp"
IsMultiplexer == abci_app = "TxSettlementMultiplexerAbciApp"

\* C1: once PostTxSettlementRound.end_block has returned, its event is
\* DECISION_REQUESTING_DONE when the db's tx_submitter is DecisionRequestRound's
\* round id, BET_PLACEMENT_DONE when it is BetPlacementRound's round id, and
\* UNRECOGNIZED for every other string.
C1_MultiplexerRouting ==
    (IsMultiplexer /\ latest_result.ret) =>
        /\ db["tx_submitter"] = {"decision_request_round"}
              => latest_result.event = "decision_requesting_done"
        /\ db["tx_submitter"] = {"bet_placement_round"}
              => latest_result.event = "bet_placement_done"
        /\ db["tx_submitter"] \notin {{"decision_request_round"}, {"bet_placement_round"}}
              => latest_result.event = "unrecognized"

C1_Witness ==
    /\ IsMultiplexer
    /\ latest_result.ret
    /\ db["tx_submitter"] = {"call_checkpoint_round"}
    /\ latest_result.event = "unrecognized"

\* C2: in the multiplexer app an unrecognized tx_submitter ends in
\* FailedMultiplexerRound as soon as end_block has run: the app neither stays
\* in PostTxSettlementRound nor reaches the dead end of a missing table
\* entry, and FailedMultiplexerRound is current only for an unrecognized
\* tx_submitter.
C2_UnrecognizedFails ==
    IsMultiplexer =>
        LET unrecognized ==
                db["tx_submitter"] \notin
                    {{"decision_request_round"}, {"bet_placement_round"}}
        IN  /\ current_round # DeadEnd
            /\ (latest_result.ret /\ unrecognized)
                  => current_round = "FailedMultiplexerRound"
            /\ current_round = "FailedMultiplexerRound"
                  => (latest_result.ret /\ unrecognized)

C2_Witness ==
    /\ IsMultiplexer
    /\ current_round = "FailedMultiplexerRound"
    /\ db["tx_submitter"] = {"subscription_round"}

\* C3: no reachable state of either app is the dead end of a missing
\* (round, event) entry, and in every reachable state the event that the
\* current round's end_block returns, and the timeout event, are keys of
\* the round's entry in transition_function.
C3_TableClosure ==
    /\ current_round # DeadEnd
    /\ current_round \in DOMAIN transition_function(abci_app)
    /\ current_round \notin final_states(abci_app) =>
          LET res == end_block(current_round, collection, db)
              row == transition_function(abci_app)[current_round]
          IN  /\ res.ret => res.event \in DOMAIN row
              /\ event_to_timeout(abci_app) \subseteq DOMAIN row

C3_Witness ==
    /\ IsStaking
    /\ latest_result.event = NEXT_CHECKPOINT_NOT_REACHED_YET
    /\ current_round = "FinishedStakingRound"

\* C4: when the quorum computation of CallCheckpointRound gives DONE, the
\* returned event follows the merged data in this order: staking state
\* UNSTAKED (0) gives SERVICE_NOT_STAKED, else EVICTED (2) gives
\* SERVICE_EVICTED, else a None tx hash gives
\* NEXT_CHECKPOINT_NOT_REACHED_YET, else DONE.
C4_RemapPriority ==
    (IsStaking /\ latest_result.generic = DONE) =>
        latest_result.event =
            IF db["service_staking_state"] = {0} THEN "service_not_staked"
            ELSE IF db["service_staking_state"] = {2} THEN "service_evicted"
            ELSE IF db["most_voted_tx_hash"] = {None}
            THEN "next_checkpoint_not_reached_yet"
            ELSE "done"

\* The staking state wins over the missing tx hash.
C4_Witness ==
    /\ IsStaking
    /\ latest_result.generic = DONE
    /\ db["most_voted_tx_hash"] = {None}
    /\ db["service_staking_state"] = {2}
    /\ latest_result.event = SERVICE_EVICTED

\* The payload values that at least floor(n/2)+1 senders of coll sent.
GroupsAtThreshold(coll) ==
    {v \in PayloadValues :
        Cardinality({a \in DOMAIN coll : coll[a] = v}) >= (NbParticipants \div 2) + 1}

\* C8: with at most one payload per sender and threshold floor(n/2)+1,
\* CallCheckpointRound reaches quorum (the quorum computation gives DONE) iff
\* some group of equal payloads has at least threshold-many senders, and at
\* most one group has.
C8_Quorum ==
    (IsStaking /\ current_round = "CallCheckpointRound") =>
        /\ DOMAIN collection \subseteq Agents
        /\ (CollectSameUntilThresholdRound_end_block(collection, db).generic = DONE)
              <=> (GroupsAtThreshold(collection) # {})
        /\ Cardinality(GroupsAtThreshold(collection)) <= 1

\* Every agent has sent a payload and the largest group is just at the
\* threshold.
C8_Witness ==
    /\ IsStaking
    /\ current_round = "CallCheckpointRound"
    /\ Cardinality(DOMAIN collection) = NbParticipants
    /\ \E v \in GroupsAtThreshold(collection) :
          Cardinality({a \in DOMAIN collection : collection[a] = v})
              = (NbParticipants \div 2) + 1

\* A step in which end_block returned a result.
EndBlockReturned ==
    \/ db' # db
    \/ current_round' # current_round
    \/ latest_result' # latest_result

\* C9: when at least threshold-many agents have sent the same payload with
\* staking state STAKED (1) and a tx hash, the end_block that follows returns
\* the merged data with DONE and the app moves to the round the table gives
\* for (CallCheckpointRound, DONE), CheckpointCallPreparedRound, which is
\* terminal.
C9_EndToEnd ==
    [][ \A v \in PayloadValues :
          ( /\ IsStaking
            /\ current_round = "CallCheckpointRound"
            /\ Cardinality({a \in DOMAIN collection : collection[a] = v})
                  >= (NbParticipants \div 2) + 1
            /\ v.service_staking_state = 1
            /\ v.tx_hash # None
            /\ EndBlockReturned )
          => /\ latest_result'.event = "done"
             /\ db' = [db EXCEPT !["participant_to_checkpoint"] = {collection},
                                 !["tx_submitter"] = {v.tx_submitter},
                                 !["most_voted_tx_hash"] = {v.tx_hash},
                                 !["service_staking_state"] = {1}]
             /\ current_round' = "CheckpointCallPreparedRound"
             /\ current_round' \in StakingAbciApp_final_states
             /\ DOMAIN StakingAbciApp_transition_function[current_round'] = {}
      ]_vars

\* Three agents sent the payload that ended the cycle.
C9_Witness ==
    /\ IsStaking
    /\ current_round = "CheckpointCallPreparedRound"
    /\ latest_result.event = DONE
    /\ latest_result.votes = 3
    /\ db["service_staking_state"] = {1}
    /\ db["most_voted_tx_hash"] # {None}


InitialPreConditions == db_pre_conditions(abci_app)[initial_round_cls(abci_app)]

\* C12: the initial round's db_pre_conditions are empty or hold only
\* cross-period persisted keys of the app.
C12_PreConditionsPersisted ==
    \/ InitialPreConditions = {}
    \/ InitialPreConditions \subseteq cross_period_persisted_keys(abci_app)

\* C12 as the code has it: CallCheckpointRound requires no key;
\* PostTxSettlementRound requires tx_submitter, which is not a cross-period
\* persisted key of its app (the app has none), and the db holds every
\* required key while the initial round runs.
C12_PreConditionsOfInitialRound ==
    /\ IsStaking => InitialPreConditions = {}
    /\ IsMultiplexer =>
          /\ InitialPreConditions = {"tx_submitter"}
          /\ InitialPreConditions \cap cross_period_persisted_keys(abci_app) = {}
    /\ current_round = initial_round_cls(abci_app)
          => \A key \in InitialPreConditions : db[key] # {}

C12_Witness ==
    /\ IsMultiplexer
    /\ latest_result.ret
    /\ current_round = "FinishedBetPlacementTxRound"
    /\ db["tx_submitter"] = {"bet_placement_round"}

\* C13: a period reset of StakingAbciApp leaves service_staking_state, the
\* cross-period persisted key, as it was before the reset and clears
\* tx_submitter, most_voted_tx_hash and participant_to_checkpoint.
C13_PeriodReset ==
    [][ ( /\ IsStaking
          /\ current_round \in StakingAbciApp_final_states
          /\ current_round' = "CallCheckpointRound" )
        => /\ db'["service_staking_state"] = db["service_staking_state"]
           /\ db'["tx_submitter"] = {}
           /\ db'["most_voted_tx_hash"] = {}
           /\ db'["participant_to_checkpoint"] = {}
      ]_vars

\* The period after a quorum on a STAKED payload: the staking state is
\* still in the db, the keys of the round are not.
C13_Witness ==
    /\ IsStaking
    /\ current_round = "CallCheckpointRound"
    /\ db["service_staking_state"] = {1}
    /\ db["tx_submitter"] = {}
    /\ db["most_voted_tx_hash"] = {}
    /\ db["participant_to_checkpoint"] = {}

\* Every set of payloads a round can have collected.
AllCollections == UNION {[S -> PayloadValues] : S \in SUBSET Agents}

\* C14: PostTxSettlementRound.end_block returns a result whatever has been
\* collected, never None; the multiplexer app is in a final round as soon as
\* end_block has been invoked once, and it never takes the ROUND_TIMEOUT
\* self-loop.
C14_OneEndBlockNoTimeout ==
    IsMultiplexer =>
        /\ current_round = "PostTxSettlementRound" =>
              \A coll \in AllCollections :
                  end_block("PostTxSettlementRound", coll, db).ret
        /\ current_round \in TxSettlementMultiplexerAbciApp_final_states
              <=> latest_result.ret
        /\ last_event # ROUND_TIMEOUT

\* C14 as the code has it: PostTxSettlementRound.end_block returns a result
\* whatever has been collected, never None, so the first end_block moves the
\* multiplexer app to one of its three final rounds, where no end_block
\* runs any more; until that end_block the ROUND_TIMEOUT self-loop of the
\* table can be taken, and it re-enters PostTxSettlementRound with the
\* SynchronizedData the app was entered with.
C14_DispatchAtFirstEndBlock ==
    IsMultiplexer =>
        /\ current_round = "PostTxSettlementRound" =>
              /\ \A coll \in AllCollections :
                    end_block("PostTxSettlementRound", coll, db).ret
              /\ ~latest_result.ret
              /\ last_event \in {None, ROUND_TIMEOUT}
              /\ db \in InitialDbs(abci_app)
        /\ current_round # "PostTxSettlementRound" =>
              /\ current_round \in TxSettlementMultiplexerAbciApp_final_states
              /\ latest_result.ret
              /\ last_event = latest_result.event
              /\ last_event # ROUND_TIMEOUT
              /\ ~HasEndBlock(abci_app, current_round)

C14_Witness ==
    /\ IsMultiplexer
    /\ current_round = "FinishedDecisionRequestTxRound"
    /\ latest_result.ret
    /\ last_event = DECISION_REQUESTING_DONE
    /\ collection = EmptyCollection

\* C15: in StakingAbciApp a step that processes NO_MAJORITY or
\* ROUND_TIMEOUT in CallCheckpointRound enters CallCheckpointRound again with
\* the SynchronizedData as it was, every step that stays in the round leaves
\* the SynchronizedData alone, and a step that leaves the round processes
\* DONE, SERVICE_NOT_STAKED, SERVICE_EVICTED or
\* NEXT_CHECKPOINT_NOT_REACHED_YET.
C15_RerunOnNoMajorityOrTimeout ==
    [][ (IsStaking /\ current_round = "CallCheckpointRound") =>
          /\ (last_event' \in {"no_majority", "round_timeout"})
                => (current_round' = "CallCheckpointRound" /\ db' = db)
          /\ (last_event' # last_event /\ last_event' \in {"no_majority", "round_timeout"})
                => collection' = EmptyCollection
          /\ (current_round' = "CallCheckpointRound") => db' = db
          /\ (current_round' # "CallCheckpointRound")
                => last_event' \in {"done", "service_not_staked", "service_evicted",
                                    "next_checkpoint_not_reached_yet"}
      ]_vars

\* No quorum is possible any more: the round has been entered again.
C15_Witness ==
    /\ IsStaking
    /\ current_round = "CallCheckpointRound"
    /\ last_event = NO_MAJORITY
    /\ latest_result.event = NO_MAJORITY
    /\ collection = EmptyCollection
    /\ db = latest_result.data

\* The events of the two apps.
AllEvents ==
    {DONE, ROUND_TIMEOUT, NO_MAJORITY, SERVICE_NOT_STAKED, SERVICE_EVICTED,
     NEXT_CHECKPOINT_NOT_REACHED_YET, DECISION_REQUESTING_DONE, BET_PLACEMENT_DONE,
     UNRECOGNIZED}

\* final_states are the rounds without transitions, and in a final round
\* no event has a transition and an end_block returns nothing.
FinalRoundHasNoTransition ==
    /\ final_states(abci_app) =
          {round \in DOMAIN transition_function(abci_app) :
              DOMAIN transition_function(abci_app)[round] = {}}
    /\ current_round \in final_states(abci_app) =>
          /\ \A event \in AllEvents :
                process_event(abci_app, current_round, event) = DeadEnd
          /\ HasEndBlock(abci_app, current_round)
                => ~end_block(current_round, collection, db).ret

\* A step from a final round keeps the round and processes no event, or is
\* the start of the next period of the staking app.
FinalRoundStep ==
    current_round \in final_states(abci_app) =>
        \/ current_round' = current_round /\ last_event' = last_event
        \/ /\ IsStaking
           /\ current_round' = initial_round_cls(abci_app)
           /\ last_event' = None

\* C16: in both apps final_states are exactly the rounds whose entry in
\* transition_function is empty; while the current round is final no event
\* has a transition, the timeout event included, and an end_block of the
\* round returns nothing; no step that processes an event changes a final
\* current round (the round changes only when the next period is started
\* from outside, which processes no event).
C16_FinalStatesAbsorbing == []FinalRoundHasNoTransition /\ [][FinalRoundStep]_vars

\* The driver has called end_block in the final ServiceEvictedRound and
\* nothing came of it.
C16_Witness ==
    /\ IsStaking
    /\ current_round = "ServiceEvictedRound"
    /\ last_event = SERVICE_EVICTED
    /\ ~latest_result.ret

\* C17: for the payloads and the db of CallCheckpointRound, end_block
\* returns None when the generic quorum result is None, returns the generic
\* result as it is when its event is not DONE, and otherwise returns the
\* data of the generic result with DONE, SERVICE_NOT_STAKED, SERVICE_EVICTED
\* or NEXT_CHECKPOINT_NOT_REACHED_YET; the same holds of the result the last
\* end_block returned.
C17_PostProcessing ==
    /\ (IsStaking /\ current_round = "CallCheckpointRound") =>
          LET generic == CollectSameUntilThresholdRound_end_block(collection, db)
              res == end_block("CallCheckpointRound", collection, db)
          IN  /\ res.ret = generic.ret
              /\ ~generic.ret => res = NoResult(db)
              /\ (generic.ret /\ generic.event # "done") => res = generic
              /\ res.data = generic.data
              /\ res.generic = generic.event
              /\ res.votes = generic.votes
              /\ res.event # generic.event =>
                    /\ generic.event = "done"
                    /\ res.event \in {"service_not_staked", "service_evicted",
                                      "next_checkpoint_not_reached_yet"}
    /\ (IsStaking /\ latest_result.ret) =>
          /\ latest_result.generic # "done" => latest_result.event = latest_result.generic
          /\ latest_result.data = db

\* The generic result was NO_MAJORITY over a db without a staking state
\* (which reads as UNSTAKED): end_block returned it as it was.
C17_Witness ==
    /\ IsStaking
    /\ latest_result.ret
    /\ latest_result.generic = NO_MAJORITY
    /\ latest_result.event = NO_MAJORITY
    /\ db["service_staking_state"] = {}
    /\ service_staking_state(db) = "UNSTAKED"

\* The order of the fetches in is_staking_kpi_met.
KpiFetchOrder ==
    <<"check_service_staked", "get_mech_request_count", "get_service_info",
      "get_ts_checkpoint", "get_liveness_period", "get_liveness_ratio">>

\* C18: the fetches of is_staking_kpi_met that have succeeded are, in
\* order, staking status, mech request count, service info, last checkpoint
\* timestamp, liveness period, liveness ratio; the fetch in progress is the
\* one after the last that succeeded, also after a failed attempt; a value
\* is set only once its fetch has succeeded; the KPI is computed only when
\* all six have succeeded.
C18_FetchOrder ==
    /\ Len(kpi_calls) <= Len(KpiFetchOrder)
    /\ \A i \in 1..Len(kpi_calls) : kpi_calls[i] = KpiFetchOrder[i]
    /\ kpi_pc \in KpiFetches => kpi_pc = KpiFetchOrder[Len(kpi_calls) + 1]
    /\ kpi_pc \in {"start", "idle"} => kpi_calls = <<>>
    /\ kpi_pc # "idle" =>
          /\ (kpi_attrs.service_staking_state # -1) <=> (Len(kpi_calls) >= 1)
          /\ (kpi_attrs.mech_request_count # -1) <=> (Len(kpi_calls) >= 2)
          /\ (kpi_attrs.mech_request_count_on_last_checkpoint # -1)
                <=> (Len(kpi_calls) >= 3)
          /\ (kpi_attrs.ts_checkpoint # -1) <=> (Len(kpi_calls) >= 4)
          /\ (kpi_attrs.liveness_period # -1) <=> (Len(kpi_calls) >= 5)
          /\ kpi_out.computed <=> (kpi_calls = KpiFetchOrder)

\* All six fetches succeeded after a failed attempt, and the KPI was computed.
C18_Witness ==
    /\ kpi_out.computed
    /\ kpi_failed >= 1
    /\ kpi_calls = KpiFetchOrder
    /\ kpi_attrs.liveness_ratio # <<>>

InitOrder == OrderInit /\ AppIdle /\ KpiIdle /\ FetchIdle

NextOrder ==
    \/ OrderStart
    \/ OrderGetBalance
    \/ OrderPrepareApprovalTx
    \/ OrderGetPurchaseParams
    \/ OrderPrepareOrderTx
    \/ OrderBuildStepFailed
    \/ OrderBuildMultisendData
    \/ OrderBuildMultisendSafeTxHash
    \/ OrderSendA2ATransaction
    \/ OrderSetDone

SpecOrder == InitOrder /\ [][NextOrder]_vars

\* One run of either behaviour.
InitBehaviours ==
    \/ KpiInit /\ AppIdle /\ OrderIdle /\ FetchIdle
    \/ OrderInit /\ AppIdle /\ KpiIdle /\ FetchIdle

NextBehaviours ==
    \/ KpiStart
    \/ KpiFetchFailed
    \/ KpiCheckServiceStaked
    \/ KpiGetMechRequestCount
    \/ KpiGetServiceInfo
    \/ KpiGetTsCheckpoint
    \/ KpiGetLivenessPeriod
    \/ KpiGetLivenessRatio
    \/ KpiSendA2ATransaction
    \/ KpiSetDone
    \/ OrderStart
    \/ OrderGetBalance
    \/ OrderPrepareApprovalTx
    \/ OrderGetPurchaseParams
    \/ OrderPrepareOrderTx
    \/ OrderBuildStepFailed
    \/ OrderBuildMultisendData
    \/ OrderBuildMultisendSafeTxHash
    \/ OrderSendA2ATransaction
    \/ OrderSetDone

SpecBehaviours == InitBehaviours /\ [][NextBehaviours]_vars

InitFetch == FetchInit /\ AppIdle /\ KpiIdle /\ OrderIdle

NextFetch == FetchPrepare \/ FetchBets \/ FetchHandleResponse \/ FetchSleep

\* The framework resumes the behaviour's generator at every tick, and a
\* request ends with a response or with None: a step that can be taken is
\* eventually taken.
SpecFetch == InitFetch /\ [][NextFetch]_vars /\ WF_vars(NextFetch)

(***************************************************************************)
(* Properties of CheckStopTradingBehaviour (checked under SpecKpi)         *)
(***************************************************************************)
KpiElapsed == kpi_params.synced_timestamp - kpi_attrs.ts_checkpoint

KpiRequestsSinceCheckpoint ==
    kpi_attrs.mech_request_count - kpi_attrs.mech_request_count_on_last_checkpoint

\* C5: with R the liveness ratio, P the liveness period and D the synced
\* timestamp minus the last checkpoint timestamp, is_staking_kpi_met computes
\* required = ceil(max(D*R/1e18, P*R/1e18)) + 1, the divisions being the
\* float divisions of the code, and returns True iff the mech requests since
\* the last checkpoint are >= required.  With R = 1e18, P = 3600 and
\* D = 3600, required is 3601: 3601 requests meet the KPI, 3600 do not.
C5_StakingKpi ==
    kpi_out.computed =>
        LET required ==
                FloatCeil(FloatMax(
                    TrueDivScale(BigMul(kpi_attrs.liveness_ratio, KpiElapsed)),
                    TrueDivScale(BigMul(kpi_attrs.liveness_ratio,
                                        kpi_attrs.liveness_period)))) + 1
        IN  /\ kpi_out.required = required
            /\ kpi_out.staking_kpi_met = (KpiRequestsSinceCheckpoint >= required)
            /\ ( /\ kpi_attrs.liveness_ratio = <<0, 0, 0, 0, 0, 0, 1>>
                 /\ kpi_attrs.liveness_period = 3600
                 /\ KpiElapsed = 3600 )
               => /\ kpi_out.required = 3601
                  /\ KpiRequestsSinceCheckpoint = 3601 => kpi_out.staking_kpi_met
                  /\ KpiRequestsSinceCheckpoint = 3600 => ~kpi_out.staking_kpi_met

C5_Witness ==
    /\ kpi_out.computed
    /\ kpi_attrs.liveness_ratio = <<0, 0, 0, 0, 0, 0, 1>>
    /\ kpi_attrs.liveness_period = 3600
    /\ KpiElapsed = 3600
    /\ KpiRequestsSinceCheckpoint = 3601
    /\ kpi_out.required = 3601
    /\ kpi_out.staking_kpi_met

\* ceil(x / 10**18) of the exact quotient
ExactCeilScale(x) ==
    ScaleQuotient(x) + (IF BigIsZero(ScaleRemainder(x)) THEN 0 ELSE 1)

\* C6: the required mech request count is the ceiling of the exact value
\* max(D*R, P*R) / 10^18, plus 1: a product that is not a multiple of 10^18
\* is rounded up.
C6_ExactCeiling ==
    kpi_out.computed =>
        LET a == ExactCeilScale(BigMul(kpi_attrs.liveness_ratio, KpiElapsed))
            b == ExactCeilScale(BigMul(kpi_attrs.liveness_ratio,
                                       kpi_attrs.liveness_period))
        IN  kpi_out.required = (IF a > b THEN a ELSE b) + 1

(***************************************************************************)
(* Properties of OrderSubscriptionBehaviour (checked under SpecOrder)      *)
(***************************************************************************)
\* The purchase steps that failed.
FailedPurchaseSteps ==
    {i \in 1..Len(order_calls) :
        order_calls[i].step \in PurchaseSteps /\ ~order_calls[i].ok}

\* C10: a failure of the balance check, of the approval tx build,
\* of the DID resolution or of the order tx build makes get_payload_content
\* return ERROR_PAYLOAD, and no later step runs.
C10_AnyFailureIsError ==
    \A i \in FailedPurchaseSteps :
        /\ i = Len(order_calls)
        /\ order_out.returned
        /\ order_out.payload_data = ERROR_PAYLOAD

(***************************************************************************)
(* Properties of both behaviours (checked under SpecBehaviours)            *)
(***************************************************************************)
\* CheckStopTradingBehaviour has sent at most one payload, has sent it iff
\* it waits for the end of the round or is done, and sent what it computed
\* once nothing was left to fetch.
KpiOnePayload ==
    kpi_pc # "idle" =>
        /\ Len(kpi_out.payloads) <= 1
        /\ (Len(kpi_out.payloads) = 1) <=> (kpi_pc \in {"wait_until_round_end", "done"})
        /\ Len(kpi_out.payloads) = 1 =>
              /\ kpi_out.payloads[1] = kpi_out.stop_trading
              /\ \/ is_first_period(kpi_params)
                 \/ ~kpi_params.stop_trading_if_staking_kpi_met
                 \/ kpi_out.evaluated
              /\ kpi_out.evaluated =>
                    \/ kpi_calls = KpiFetchOrder
                    \/ kpi_calls = <<"check_service_staked">>
                          /\ kpi_attrs.service_staking_state # 1

\* OrderSubscriptionBehaviour has sent at most one payload, has sent it iff
\* it waits for the end of the round or is done, and sent what
\* get_payload_content returned.
OrderOnePayload ==
    order_pc # "idle" =>
        /\ Len(order_out.sent) <= 1
        /\ (Len(order_out.sent) = 1) <=> (order_pc \in {"wait_until_round_end", "done"})
        /\ Len(order_out.sent) = 1 =>
              /\ order_out.returned
              /\ order_out.sent[1].tx_hash = order_out.payload_data
              /\ order_out.sent[1].agreement_id = order_out.agreement_id

\* A behaviour becomes done from waiting for the end of the round, and
\* starts to wait by sending its payload.
DoneAfterWaiting ==
    /\ (kpi_pc' = "done" /\ kpi_pc # "done") => kpi_pc = "wait_until_round_end"
    /\ (kpi_pc' = "wait_until_round_end" /\ kpi_pc # "wait_until_round_end")
          => (kpi_pc = "send" /\ Len(kpi_out'.payloads) = Len(kpi_out.payloads) + 1)
    /\ (order_pc' = "done" /\ order_pc # "done") => order_pc = "wait_until_round_end"
    /\ (order_pc' = "wait_until_round_end" /\ order_pc # "wait_until_round_end")
          => (order_pc = "finish_behaviour"
              /\ Len(order_out'.sent) = Len(order_out.sent) + 1)

\* C19: in every run of CheckStopTradingBehaviour.async_act and of
\* OrderSubscriptionBehaviour.async_act at most one payload is sent and a
\* done behaviour has sent exactly one, the payload is sent only when the
\* gathering of external data is over, and the behaviour is done only after
\* the sending and after the wait for the end of the round.
C19_OnePayloadThenDone ==
    [](KpiOnePayload /\ OrderOnePayload) /\ [][DoneAfterWaiting]_vars

\* CheckStopTradingBehaviour is done: it sent the one payload after the six
\* fetches.
C19_Witness ==
    /\ kpi_pc = "done"
    /\ Len(kpi_out.payloads) = 1
    /\ kpi_out.computed
    /\ kpi_calls = KpiFetchOrder

(***************************************************************************)
(* Properties of _get_condition_ids (checked under SpecOrder)              *)
(***************************************************************************)
\* C20: once the DID document is resolved, the condition ids of the
\* purchase are the three seeds [lock-payment, transfer-NFT, escrow-payment]
\* in that order; the transfer-NFT seed is derived from the id of the
\* lock-payment condition, the escrow-payment seed from that same id and
\* from the id of the transfer-NFT condition, and both ids are made with the
\* one agreement id of the behaviour.
C20_ConditionChain ==
    order_out.condition_ids # <<>> =>
        LET ids == order_out.condition_ids
            lock_payment_id ==
                condition_id(order_out.agreement_id, "lock_payment_condition_address",
                             ids[1])
            transfer_nft_condition_id ==
                condition_id(order_out.agreement_id, "transfer_nft_condition_address",
                             ids[2])
        IN  /\ Len(ids) = 3
            /\ ids[1].condition = "lock_payment"
            /\ ids[2].condition = "transfer_nft"
            /\ ids[3].condition = "escrow_payment"
            /\ ids[2].lock_payment_id = lock_payment_id
            /\ ids[3].lock_payment_id = lock_payment_id
            /\ ids[3].transfer_nft_condition_id = transfer_nft_condition_id
            /\ ids[3].transfer_nft_condition_id.seed.lock_payment_id = lock_payment_id
            /\ ids[1].did_doc = ids[2].did_doc
            /\ ids[2].did_doc = ids[3].did_doc

C20_Witness ==
    /\ order_pc = "prepare_order_tx"
    /\ Len(order_out.condition_ids) = 3
    /\ order_out.agreement_id.agreement_id_seed = "0xagreement2"
    /\ order_out.condition_ids[1].did_doc = "did_doc_2"


(***************************************************************************)
(* Properties of QueryingBehaviour (checked under SpecFetch)               *)
(***************************************************************************)
\* A step in which _handle_response processed a response.
ResponseHandled == fetch_pc = "get_http_response" /\ fetch_pc' # fetch_pc

\* The retries of the subgraphs other than the current one are left alone.
OtherRetriesKept ==
    \A m \in Markets \ {current_market} : retries_attempted'[m] = retries_attempted[m]

HandledNone ==
    /\ call_failed'
    /\ retries_attempted'[current_market] = retries_attempted[current_market] + 1
    /\ fetch_status' = "FAIL"
           <=> retries_attempted'[current_market] > fetch_params.retries
    /\ fetch_status' # "FAIL" => fetch_status' = "IN_PROGRESS"
    /\ bets' = None
    /\ fetch_pc' = "sleep"

HandledResponse ==
    /\ ~call_failed'
    /\ retries_attempted'[current_market] = 0
    /\ fetch_status' = "SUCCESS"
    /\ bets' = fetch_log'[Len(fetch_log')].res
    /\ bets' \in FetchResponses
    /\ fetch_pc' = "prepare"

C21_Step ==
    ResponseHandled =>
        /\ fetch_log' = Append(fetch_log, fetch_log'[Len(fetch_log')])
        /\ OtherRetriesKept
        /\ IF fetch_log'[Len(fetch_log')].res = None THEN HandledNone ELSE HandledResponse

\* C21: when the response is None, _handle_response sets _call_failed,
\* increments the retries of the current subgraph by exactly one, sets the
\* fetch status to FAIL exactly when the retries are then exceeded (the status
\* stays IN_PROGRESS otherwise) and returns None; when the response is not
\* None it clears _call_failed, resets the retries to zero, sets the status to
\* SUCCESS and returns the response.
C21_HandleResponse == [][C21_Step]_vars

\* A failed call exceeded the retries of its subgraph, after an earlier call
\* of the run was answered.
C21_Witness ==
    /\ fetch_pc = "sleep"
    /\ call_failed
    /\ fetch_status = "FAIL"
    /\ \E i \in 1..Len(fetch_log) : fetch_log[i].res # None

\* What a call of _prepare_bets_fetching would do in the current state.
PrepareResult ==
    prepare_bets_fetching(fetch_status, creators_iterator, current_market,
                          current_creators)

\* The call takes the next (market, creators) pair of the iterator.
PrepareAdvances ==
    /\ creators_iterator # <<>>
    /\ PrepareResult.iterator = Tail(creators_iterator)
    /\ PrepareResult.market = Head(creators_iterator)[1]
    /\ PrepareResult.creators = Head(creators_iterator)[2]

\* The call leaves the iterator and the current pair alone.
PrepareKeeps ==
    /\ PrepareResult.iterator = creators_iterator
    /\ PrepareResult.market = current_market
    /\ PrepareResult.creators = current_creators

C22_Call ==
    fetch_pc \in {"prepare", "done"} =>
        /\ PrepareAdvances \/ PrepareKeeps
        /\ PrepareAdvances => fetch_status \in {"SUCCESS", "NONE"}
        /\ fetch_status = "IN_PROGRESS" => PrepareKeeps /\ PrepareResult.ret
        /\ fetch_status = "FAIL" =>
               PrepareKeeps /\ ~PrepareResult.ret /\ PrepareResult.status = "FAIL"
        /\ fetch_status \in {"SUCCESS", "NONE"} /\ creators_iterator = <<>> =>
               PrepareKeeps /\ ~PrepareResult.ret
        /\ PrepareResult.ret => PrepareResult.status = "IN_PROGRESS"

C22_Step ==
    /\ fetch_pc \in {"prepare", "done"} =>
           /\ fetch_status' = PrepareResult.status
           /\ creators_iterator' = PrepareResult.iterator
           /\ current_market' = PrepareResult.market
           /\ current_creators' = PrepareResult.creators
           /\ prepare_ret' = {PrepareResult.ret}
    /\ fetch_status = "FAIL" =>
           /\ fetch_status' = "FAIL"
           /\ current_market' = current_market
           /\ creators_iterator' = creators_iterator
           /\ fetch_log' = fetch_log

\* C22: _prepare_bets_fetching takes the next (market, creators) pair only
\* when the status is SUCCESS or NONE; with IN_PROGRESS it keeps the current
\* market and returns True; with FAIL it returns False and leaves the status,
\* the market and the iterator unchanged, on every later call too; with the
\* iterator exhausted it returns False and keeps the current market.
C22_PrepareBetsFetching == []C22_Call /\ [][C22_Step]_vars

\* A call returned False because the status is FAIL, with markets left in the
\* iterator.
C22_Witness ==
    /\ fetch_pc = "done"
    /\ fetch_status = "FAIL"
    /\ prepare_ret = {FALSE}
    /\ creators_iterator # <<>>

\* The markets the service is configured with, in the iterator's order.
ConfiguredMarkets == [i \in 1..Len(fetch_params.creators) |-> fetch_params.creators[i][1]]

\* The market was fetched successfully.
FetchedSuccessfully(m) ==
    \E i \in 1..Len(fetch_log) : fetch_log[i].market = m /\ fetch_log[i].res # None

\* The loop has ended with every market fetched successfully.
EveryMarketFetched ==
    /\ creators_iterator = <<>>
    /\ fetch_status \in {"SUCCESS", "NONE"}
    /\ \A i \in 1..Len(ConfiguredMarkets) : FetchedSuccessfully(ConfiguredMarkets[i])

\* The loop has ended with status FAIL, the retries of the current subgraph
\* exceeded by a failed call.
FailedAfterRetries ==
    /\ fetch_status = "FAIL"
    /\ fetch_log # <<>>
    /\ fetch_log[Len(fetch_log)].market = current_market
    /\ fetch_log[Len(fetch_log)].res = None
    /\ retries_attempted[current_market] > fetch_params.retries

LoopEnded ==
    /\ fetch_pc = "done"
    /\ prepare_ret = {FALSE}
    /\ EveryMarketFetched \/ FailedAfterRetries

\* C23: for a finite creators iterator and a finite retry limit the loop
\* while _prepare_bets_fetching(): _fetch_bets() ends, whatever the responses
\* are: with every market fetched successfully, or with status FAIL after the
\* retries of one subgraph were exceeded; later calls leave it ended.
C23_LoopTerminates == <>[]LoopEnded

\* The loop ended with two markets fetched, after a failed call that was
\* retried.
C23_Witness ==
    /\ LoopEnded
    /\ EveryMarketFetched
    /\ Len(ConfiguredMarkets) >= 2
    /\ \E i \in 1..Len(fetch_log) : fetch_log[i].res = None

\* The number of markets the iterator has yielded.
MarketsTaken == Len(ConfiguredMarkets) - Len(creators_iterator)

\* The position of the log entry's market in the iterator's order.
LogPosition(i) ==
    CHOOSE k \in 0..Len(ConfiguredMarkets) :
        \/ k > 0 /\ ConfiguredMarkets[k] = fetch_log[i].market
        \/ k = 0 /\ \A j \in 1..Len(ConfiguredMarkets) :
                        ConfiguredMarkets[j] # fetch_log[i].market

C24_Log ==
    \* the current market is the last one the iterator yielded
    /\ MarketsTaken > 0 => current_market = ConfiguredMarkets[MarketsTaken]
    /\ MarketsTaken = 0 => current_market = 0 /\ fetch_log = <<>>
    \* every market before the current one was fetched successfully
    /\ \A k \in 1..(MarketsTaken - 1) : FetchedSuccessfully(ConfiguredMarkets[k])
    \* only markets the iterator yielded are queried, with their creators
    /\ \A i \in 1..Len(fetch_log) :
           /\ LogPosition(i) \in 1..MarketsTaken
           /\ fetch_log[i].creators = fetch_params.creators[LogPosition(i)][2]
    \* the queries start with the first market
    /\ fetch_log # <<>> => LogPosition(1) = 1
    \* a query is followed by one of the same market when it failed, and by
    \* one of the next market when it succeeded
    /\ \A i \in 1..(Len(fetch_log) - 1) :
           IF fetch_log[i].res = None
           THEN LogPosition(i + 1) = LogPosition(i)
           ELSE LogPosition(i + 1) = LogPosition(i) + 1
    \* no market is fetched successfully twice
    /\ \A i, j \in 1..Len(fetch_log) :
           /\ fetch_log[i].market = fetch_log[j].market
           /\ fetch_log[i].res # None
           /\ fetch_log[j].res # None
           => i = j

C24_Step ==
    /\ fetch_status = "FAIL" => fetch_log' = fetch_log
    /\ creators_iterator' # creators_iterator =>
           /\ creators_iterator' = Tail(creators_iterator)
           /\ fetch_status \in {"SUCCESS", "NONE"}
           /\ current_market # 0 => FetchedSuccessfully(current_market)

\* C24: the markets are fetched in the iterator's order; a market is moved
\* past only after it was fetched successfully, so none is skipped and none
\* is fetched successfully twice; once the status is FAIL no market is
\* queried any more.
C24_MarketsInOrder == []C24_Log /\ [][C24_Step]_vars

\* The first market failed once and was fetched at the retry, then the second
\* market was queried.
C24_Witness ==
    /\ Len(fetch_log) >= 3
    /\ fetch_log[1].res = None
    /\ fetch_log[2].res # None
    /\ fetch_log[3].market # fetch_log[1].market

(***************************************************************************)
(* Further properties of the ABCI apps (checked under Spec)                *)
(***************************************************************************)
\* C25: in StakingAbciApp the final round agrees with the merged data:
\* CheckpointCallPreparedRound only if the staking state is neither UNSTAKED
\* nor EVICTED and most_voted_tx_hash is not None, ServiceEvictedRound only if
\* the staking state is EVICTED, FinishedStakingRound only if the staking
\* state is UNSTAKED, or is not EVICTED and most_voted_tx_hash is None.
C25_FinalRoundAgreesWithData ==
    IsStaking =>
        /\ current_round = "CheckpointCallPreparedRound" =>
               /\ service_staking_state(db) \notin {"UNSTAKED", "EVICTED"}
               /\ db["most_voted_tx_hash"] # {}
               /\ most_voted_tx_hash(db) # None
        /\ current_round = "ServiceEvictedRound" =>
               service_staking_state(db) = "EVICTED"
        /\ current_round = "FinishedStakingRound" =>
               \/ service_staking_state(db) = "UNSTAKED"
               \/ /\ service_staking_state(db) # "EVICTED"
                  /\ db["most_voted_tx_hash"] = {None}

\* The app finished with a staked service whose next checkpoint is not
\* reached yet.
C25_Witness ==
    /\ IsStaking
    /\ current_round = "FinishedStakingRound"
    /\ service_staking_state(db) = "STAKED"
    /\ db["most_voted_tx_hash"] = {None}
    /\ last_event = NEXT_CHECKPOINT_NOT_REACHED_YET

C30_State ==
    IsMultiplexer =>
        /\ db \in InitialDbs(abci_app)
        /\ current_round = "PostTxSettlementRound" =>
               /\ PostTxSettlementRound_end_block(db).ret
               /\ PostTxSettlementRound_end_block(db).data = db
        /\ latest_result.data = db

C30_Step == IsMultiplexer => db' = db /\ latest_result'.data = db

\* C30: PostTxSettlementRound.end_block writes nothing: the SynchronizedData
\* it returns has the key-value contents the round started with, for every
\* tx_submitter and every event it returns.
C30_EndBlockWritesNothing == []C30_State /\ [][C30_Step]_vars

\* end_block has returned BET_PLACEMENT_DONE for a db that holds a tx hash
\* and a staking state.
C30_Witness ==
    /\ IsMultiplexer
    /\ latest_result.ret
    /\ latest_result.event = BET_PLACEMENT_DONE
    /\ latest_result.data = db
    /\ db["most_voted_tx_hash"] = {"0xcheckpoint"}
    /\ db["service_staking_state"] = {1}

(***************************************************************************)
(* Further properties of CheckStopTradingBehaviour (checked under SpecKpi) *)
(***************************************************************************)
\* No staking or mech contract has been called, successfully or not.
KpiNoExternalCall ==
    /\ kpi_calls = <<>>
    /\ kpi_failed = 0
    /\ kpi_pc \notin KpiFetches
    /\ kpi_attrs = KpiUnset
    /\ ~kpi_out.evaluated
    /\ ~kpi_out.computed

\* The payload has been built: stop_trading holds its value.
KpiPayloadBuilt == kpi_pc \in {"send", "wait_until_round_end", "done"}

\* C26: in the first period (period_count = 0) the behaviour submits
\* stop_trading = False whatever disable_trading and
\* stop_trading_if_staking_kpi_met are, and calls no staking or mech contract
\* before it submits.
C26_FirstPeriod ==
    (kpi_pc # "idle" /\ kpi_params.period_count = 0) =>
        /\ KpiNoExternalCall
        /\ kpi_pc # "start" => KpiPayloadBuilt
        /\ KpiPayloadBuilt => ~kpi_out.stop_trading
        /\ \A i \in 1..Len(kpi_out.payloads) : kpi_out.payloads[i] = FALSE

\* The first period's payload was sent with both parameters set.
C26_Witness ==
    /\ kpi_pc = "wait_until_round_end"
    /\ kpi_params.period_count = 0
    /\ kpi_params.disable_trading
    /\ kpi_params.stop_trading_if_staking_kpi_met
    /\ kpi_out.payloads = <<FALSE>>

\* C27: in a period after the first the submitted stop_trading is
\* disable_trading OR (stop_trading_if_staking_kpi_met AND the staking KPI is
\* met); when stop_trading_if_staking_kpi_met is false the KPI is not
\* evaluated and no staking or mech contract is called.
C27_LaterPeriods ==
    (kpi_pc # "idle" /\ kpi_params.period_count # 0) =>
        /\ ~kpi_params.stop_trading_if_staking_kpi_met => KpiNoExternalCall
        /\ KpiPayloadBuilt =>
               /\ kpi_params.stop_trading_if_staking_kpi_met <=> kpi_out.evaluated
               /\ kpi_out.stop_trading
                      <=> \/ kpi_params.disable_trading
                          \/ /\ kpi_params.stop_trading_if_staking_kpi_met
                             /\ kpi_out.staking_kpi_met
        /\ \A i \in 1..Len(kpi_out.payloads) :
               kpi_out.payloads[i]
                   <=> \/ kpi_params.disable_trading
                       \/ /\ kpi_params.stop_trading_if_staking_kpi_met
                          /\ kpi_out.staking_kpi_met

\* A later period's payload was sent with trading enabled and the KPI, met,
\* stopping it.
C27_Witness ==
    /\ kpi_pc = "wait_until_round_end"
    /\ kpi_params.period_count # 0
    /\ ~kpi_params.disable_trading
    /\ kpi_params.stop_trading_if_staking_kpi_met
    /\ kpi_out.computed
    /\ kpi_out.staking_kpi_met
    /\ kpi_out.payloads = <<TRUE>>

\* C28: is_staking_kpi_met returns False whenever the fetched staking state
\* of the service is not STAKED, and makes none of the five later fetches.
C28_NotStaked ==
    (kpi_pc # "idle" /\ kpi_attrs.service_staking_state \in {0, 2}) =>
        /\ kpi_out.evaluated
        /\ ~kpi_out.staking_kpi_met
        /\ ~kpi_out.computed
        /\ kpi_calls = <<"check_service_staked">>
        /\ kpi_attrs = [KpiUnset EXCEPT
                            !.service_staking_state = kpi_attrs.service_staking_state]
        /\ KpiPayloadBuilt
        /\ kpi_out.stop_trading <=> kpi_params.disable_trading

\* is_staking_kpi_met returned for an evicted service, after a failed attempt
\* of the staking state's fetch.
C28_Witness ==
    /\ kpi_pc = "send"
    /\ kpi_attrs.service_staking_state = 2
    /\ kpi_failed = 1
    /\ kpi_out.evaluated
    /\ ~kpi_out.staking_kpi_met

(***************************************************************************)
(* Further properties of OrderSubscriptionBehaviour (checked under         *)
(* SpecOrder)                                                              *)
(***************************************************************************)
\* The build of the step has run and succeeded.
BuildSucceeded(step) ==
    \E i \in 1..Len(order_calls) : order_calls[i].step = step /\ order_calls[i].ok

IsApprovalBatch(batch) == batch.to = "payment_token" /\ batch.data \in ApprovalTxs

IsOrderBatch(batch) == batch.to = "order_address" /\ batch.data \in OrderTxs

\* C29: during one run of get_payload_content multisend_batches gains at
\* most one approval batch and at most one order batch, the order batch only
\* after the approval batch and each batch only when its build succeeded, and
\* a tx hash (a value other than NO_TX_PAYLOAD and ERROR_PAYLOAD) is returned
\* only when both batches were appended, in the order [approval, order].
C29_MultisendBatches ==
    order_pc # "idle" =>
        /\ Len(multisend_batches) <= 2
        /\ Len(multisend_batches) >= 1 => IsApprovalBatch(multisend_batches[1])
        /\ Len(multisend_batches) = 2 => IsOrderBatch(multisend_batches[2])
        /\ Len(multisend_batches) >= 1 <=> BuildSucceeded("build_approval_tx")
        /\ Len(multisend_batches) = 2 <=> BuildSucceeded("build_order_tx")
        /\ (order_out.returned /\ order_out.payload_data \notin {NO_TX_PAYLOAD, ERROR_PAYLOAD})
               => /\ Len(multisend_batches) = 2
                  /\ IsApprovalBatch(multisend_batches[1])
                  /\ IsOrderBatch(multisend_batches[2])
                  /\ order_out.payload_data \in TxHexes

\* get_payload_content returned a tx hash.
C29_Witness ==
    /\ order_out.returned
    /\ order_out.payload_data \in TxHexes
    /\ Len(multisend_batches) = 2
    /\ order_failed = 1

====
